---- MODULE Spec2Model ----
(***************************************************************************)
(* Compliance checker and auto-fix pipeline of the creative guardrail      *)
(* backend (backend/complianceChecker.js, backend/retailRules.js).         *)
(*                                                                         *)
(* JavaScript values are represented as follows.                           *)
(*  - strings are TLA+ strings; a character is a string of length one;     *)
(*  - a number field that is missing is the number 0 (both are falsy, so   *)
(*    every `x || d` of the source takes the same branch);                 *)
(*  - scaleX / scaleY are kept in tenths (10 is the scale 1.0), so that    *)
(*    fractional scales stay exact; sizes derived from them are in tenths  *)
(*    of a pixel;                                                          *)
(*  - a colour value (fill, backgroundColor) is a record                   *)
(*    [t, s, r, g, b]: t = "string" with the text s, t = "rgb" for an      *)
(*    object with channels r, g, b, t = "object" for any other object and  *)
(*    t = "undefined" when the field is missing;                           *)
(*  - objects live in a heap: an array is a sequence of element            *)
(*    references, an element is a record, so that sharing between the      *)
(*    caller's scene and the fixer's copy is observable.                   *)
(***************************************************************************)
EXTENDS Integers, Sequences, FiniteSets, TLC

(***************************************************************************)
(* Strings                                                                 *)
(***************************************************************************)
Ch(s, i) == SubSeq(s, i, i)

UpperChars == "ABCDEFGHIJKLMNOPQRSTUVWXYZ"
LowerChars == "abcdefghijklmnopqrstuvwxyz"
DigitChars == "0123456789"
HexChars == "0123456789abcdef"

CharsOf(s) == { Ch(s, i) : i \in 1..Len(s) }

IndexIn(s, c) == CHOOSE i \in 1..Len(s) : Ch(s, i) = c

\* String.prototype.toLowerCase on one character (ASCII)
ToLowerMap == [c \in CharsOf(UpperChars) |-> Ch(LowerChars, IndexIn(UpperChars, c))]

LowerChar(c) == IF c \in DOMAIN ToLowerMap THEN ToLowerMap[c] ELSE c

\* The one element of the singleton set {x}. Operators below bind a value
\* with `v \in {expression}` before they use it, so that the expression is
\* evaluated once however often the body reads it.
The(set) == CHOOSE x \in set : TRUE

\* pieces[lo] \o ... \o pieces[hi]
RECURSIVE Concat(_, _, _)
Concat(pieces, lo, hi) ==
  IF lo > hi THEN ""
  ELSE IF lo = hi THEN pieces[lo]
       ELSE The({ Concat(pieces, lo, mid) \o Concat(pieces, mid + 1, hi) :
                  mid \in {(lo + hi) \div 2} })

\* String.prototype.toLowerCase: every character in lower case
toLowerCase(str) ==
  The({ Concat(lower, 1, Len(lower)) :
        lower \in { [i \in 1..Len(s) |-> LowerChar(Ch(s, i))] : s \in {str} } })

\* String.prototype.includes
includes(s, p) ==
  \E i \in 0..(Len(s) - Len(p)) : SubSeq(s, i + 1, i + Len(p)) = p

\* String.prototype.startsWith
startsWith(s, p) == Len(s) >= Len(p) /\ SubSeq(s, 1, Len(p)) = p

\* String.prototype.trim (the only white space of the model is the blank)
RECURSIVE trimStart(_)
trimStart(s) ==
  IF Len(s) > 0 /\ Ch(s, 1) = " " THEN trimStart(SubSeq(s, 2, Len(s))) ELSE s

RECURSIVE trimEnd(_)
trimEnd(s) ==
  IF Len(s) > 0 /\ Ch(s, Len(s)) = " " THEN trimEnd(SubSeq(s, 1, Len(s) - 1)) ELSE s

trim(str) == The({ trimEnd(trimStart(s)) : s \in {str} })

Max(a, b) == IF a >= b THEN a ELSE b
Min(a, b) == IF a <= b THEN a ELSE b

\* x || d on numbers: 0 (or a missing field) is falsy
OrNum(x, d) == IF x = 0 THEN d ELSE x

\* x || d on strings: the empty string (or a missing field) is falsy
OrStr(x, d) == IF x = "" THEN d ELSE x

(***************************************************************************)
(* Colour model                                                            *)
(***************************************************************************)
HexDigitSet == CharsOf(HexChars) \cup CharsOf("ABCDEF")

HexValMap == [c \in CharsOf(HexChars) |-> IndexIn(HexChars, c) - 1]

\* value of one hexadecimal digit, either case
HexVal(c) == HexValMap[LowerChar(c)]

\* Number.prototype.toString(16) for n >= 0
RECURSIVE toString16(_)
toString16(n) ==
  IF n < 16 THEN Ch(HexChars, n + 1)
  ELSE toString16(n \div 16) \o Ch(HexChars, (n % 16) + 1)

\* String.prototype.padStart(2, '0')
padStart2(s) == IF Len(s) < 2 THEN (IF Len(s) = 0 THEN "00" ELSE "0" \o s) ELSE s

StrColor(s) == [t |-> "string", s |-> s, r |-> 0, g |-> 0, b |-> 0]
RgbColor(r, g, b) == [t |-> "rgb", s |-> "", r |-> r, g |-> g, b |-> b]
ObjColor == [t |-> "object", s |-> "", r |-> 0, g |-> 0, b |-> 0]
NoColor == [t |-> "undefined", s |-> "", r |-> 0, g |-> 0, b |-> 0]

NullRgb == [ok |-> FALSE, r |-> 0, g |-> 0, b |-> 0]

\* /^#?([a-f\d]{2})([a-f\d]{2})([a-f\d]{2})$/i : six hex digits after an
\* optional '#'; anything else is null
\* parseInt(result[k], 16) of the two digits at position i
HexPair(body, i) == 16 * HexVal(Ch(body, i)) + HexVal(Ch(body, i + 1))

\* the groups of the match: body is the text after the optional '#'
HexGroups(body) ==
  IF Len(body) = 6 /\ \A i \in 1..6 : Ch(body, i) \in HexDigitSet
  THEN [ok |-> TRUE, r |-> HexPair(body, 1), g |-> HexPair(body, 3), b |-> HexPair(body, 5)]
  ELSE NullRgb

hexToRgb(hex) ==
  The({ HexGroups(body) :
        body \in {IF startsWith(hex, "#") THEN SubSeq(hex, 2, Len(hex)) ELSE hex} })

\* Fixed-point image of the channel linearisation of getLuminance:
\* LinTable[v + 1] = round(LinScale * f(v / 255)) with
\* f(c) = c <= 0.03928 ? c / 12.92 : ((c + 0.055) / 1.055) ^ 2.4
LinTable ==
  <<
      0, 12, 24, 36, 49, 61, 73, 85, 97, 109, 121, 134, 147, 161, 176, 191,
      207, 224, 242, 260, 280, 300, 321, 343, 365, 389, 413, 438, 464, 491, 519, 548,
      578, 608, 640, 672, 706, 740, 775, 812, 849, 887, 926, 966, 1007, 1050, 1093, 1137,
      1182, 1229, 1276, 1324, 1374, 1424, 1476, 1528, 1582, 1637, 1692, 1749, 1807, 1867, 1927, 1988,
      2051, 2114, 2179, 2245, 2312, 2380, 2450, 2520, 2592, 2665, 2739, 2814, 2891, 2969, 3047, 3127,
      3209, 3291, 3375, 3460, 3546, 3634, 3722, 3812, 3903, 3996, 4090, 4185, 4281, 4378, 4477, 4577,
      4679, 4782, 4886, 4991, 5098, 5205, 5315, 5425, 5537, 5651, 5765, 5881, 5998, 6117, 6237, 6358,
      6481, 6605, 6731, 6858, 6986, 7116, 7247, 7379, 7513, 7648, 7785, 7923, 8062, 8203, 8345, 8489,
      8634, 8781, 8929, 9079, 9230, 9382, 9536, 9691, 9848, 10006, 10166, 10327, 10490, 10654, 10820, 10987,
      11156, 11326, 11498, 11671, 11846, 12022, 12199, 12379, 12560, 12742, 12926, 13111, 13298, 13487, 13677, 13868,
      14061, 14256, 14452, 14650, 14850, 15050, 15253, 15457, 15663, 15870, 16079, 16290, 16502, 16715, 16931, 17148,
      17366, 17586, 17808, 18031, 18256, 18483, 18711, 18941, 19173, 19406, 19641, 19877, 20115, 20355, 20597, 20840,
      21085, 21331, 21579, 21829, 22080, 22334, 22588, 22845, 23103, 23363, 23625, 23888, 24153, 24420, 24688, 24958,
      25230, 25504, 25779, 26056, 26335, 26615, 26898, 27182, 27467, 27755, 28044, 28335, 28628, 28922, 29218, 29516,
      29816, 30118, 30421, 30726, 31033, 31342, 31652, 31964, 32278, 32594, 32911, 33231, 33552, 33875, 34200, 34526,
      34855, 35185, 35517, 35851, 36186, 36524, 36863, 37204, 37547, 37892, 38239, 38587, 38938, 39290, 39644, 40000
  >>

\* Relative luminance in units of 1 / LumOne (the channel weights
\* 0.2126, 0.7152, 0.0722 are 1063, 3576, 361 in units of 1 / 5000)
getLuminance(r, g, b) ==
  1063 * LinTable[r + 1] + 3576 * LinTable[g + 1] + 361 * LinTable[b + 1]

\* the luminance 1.0 in the units of getLuminance (5000 * LinTable[256])
LumOne == 5000 * LinTable[256]

\* The contrast ratio is kept as the pair <<numerator, denominator>>:
\* <<lighter + 0.05, darker + 0.05>>; <<1, 1>> is the ratio 1 of an
\* invalid colour
\* a variant of RatioOfLuminances that divides in argument order
RatioOfLuminances_Ordered(lum1, lum2) == <<lum1 + LumOne \div 20, lum2 + LumOne \div 20>>

\* (lighter + 0.05) / (darker + 0.05)
RatioOfLuminances(lum1, lum2) ==
  <<Max(lum1, lum2) + LumOne \div 20, Min(lum1, lum2) + LumOne \div 20>>

RatioOfRgb(rgb1, rgb2) ==
  IF ~rgb1.ok \/ ~rgb2.ok THEN <<1, 1>>
  ELSE RatioOfLuminances(getLuminance(rgb1.r, rgb1.g, rgb1.b),
                         getLuminance(rgb2.r, rgb2.g, rgb2.b))

getContrastRatio(color1, color2) ==
  The({ RatioOfRgb(rgb1, rgb2) : rgb1 \in {hexToRgb(color1)}, rgb2 \in {hexToRgb(color2)} })

\* ratio < 4.5 (minContrastRatio, targetRatio), i.e. 2 * num < 9 * den
BelowTarget(ratio) == 2 * ratio[1] < 9 * ratio[2]

\* `#${r}${g}${b}` of channel values, each in two hex digits at least
RgbToHex(r, g, b) ==
  "#" \o padStart2(toString16(r)) \o padStart2(toString16(g)) \o padStart2(toString16(b))

\* a missing colour or '' is falsy
IsFalsyColor(c) == c.t = "undefined" \/ (c.t = "string" /\ c.s = "")

BackgroundHex(bgColor) ==
  IF bgColor.t = "string" /\ startsWith(bgColor.s, "#") THEN bgColor.s
  ELSE IF bgColor.t = "rgb" THEN RgbToHex(bgColor.r, bgColor.g, bgColor.b)
       ELSE "#FFFFFF"

\* getBackgroundColor(canvasData, textObject): the scene's flat background
getBackgroundColor(canvasData) ==
  BackgroundHex(IF IsFalsyColor(canvasData.backgroundColor) THEN StrColor("#FFFFFF")
                ELSE canvasData.backgroundColor)

\* parseInt(hex.replace('#', ''), 16), reduced modulo 2^24 (only the low 24
\* bits are read); -1 stands for NaN (no leading hex digit)
RECURSIVE ParseHexPrefix(_, _, _)
ParseHexPrefix(str, accumulated, seen) ==
  The({ IF Len(s) > 0 /\ Ch(s, 1) \in HexDigitSet
        THEN ParseHexPrefix(SubSeq(s, 2, Len(s)),
                            (acc * 16 + HexVal(Ch(s, 1))) % 16777216, TRUE)
        ELSE IF seen THEN acc ELSE -1 : s \in {str}, acc \in {accumulated} })

\* String.prototype.replace('#', ''): the first '#' is removed
RECURSIVE RemoveFirstHash(_)
RemoveFirstHash(str) ==
  The({ IF Len(s) = 0 THEN ""
        ELSE IF Ch(s, 1) = "#" THEN SubSeq(s, 2, Len(s))
             ELSE Ch(s, 1) \o RemoveFirstHash(SubSeq(s, 2, Len(s))) : s \in {str} })

\* Math.round(c + c * percent) for percent = tenths / 10, clamped to 0..255
AdjustChannel(c, tenths) ==
  Min(255, Max(0, (c * (10 + tenths) * 2 + 10) \div 20))

\* the body of adjustColorBrightness once num is parsed
AdjustNum(hex, num, tenths) ==
  IF num = -1 THEN hex
  ELSE RgbToHex(AdjustChannel((num \div 65536) % 256, tenths),
                AdjustChannel((num \div 256) % 256, tenths),
                AdjustChannel(num % 256, tenths))

adjustColorBrightness(hex, tenths) ==
  The({ AdjustNum(hex, num, tenths) : num \in {ParseHexPrefix(RemoveFirstHash(hex), 0, FALSE)} })

\* getColorLuminance(hex): 0.5 for an invalid colour
LuminanceOrHalf(rgb) ==
  IF ~rgb.ok THEN LumOne \div 2 ELSE getLuminance(rgb.r, rgb.g, rgb.b)

getColorLuminance(hex) == The({ LuminanceOrHalf(rgb) : rgb \in {hexToRgb(hex)} })

\* the while loop of fixTextContrast: at most MaxAttempts adjustments
MaxAttempts == 20

RECURSIVE AdjustLoop(_, _, _, _)
AdjustLoop(color, backgroundColor, tenths, attempts) ==
  The({ IF BelowTarget(getContrastRatio(adjustedColor, backgroundColor))
           /\ attempts < MaxAttempts
        THEN AdjustLoop(adjustColorBrightness(adjustedColor, tenths), backgroundColor,
                        tenths, attempts + 1)
        ELSE adjustedColor : adjustedColor \in {color} })

\* a variant of AdjustedOr without the check after the loop
AdjustedOr_Unchecked(adjustedColor, backgroundColor, pure) == adjustedColor

\* after the loop: the adjusted colour, or pure black / white when it is
\* still below the target
AdjustedOr(adjustedColor, backgroundColor, pure) ==
  IF BelowTarget(getContrastRatio(adjustedColor, backgroundColor)) THEN pure
  ELSE adjustedColor

\* fixTextContrast(textColor, backgroundColor, 4.5): -1 darkens by 10%, 1
\* lightens by 10%
fixTextContrast(textColor, backgroundColor) ==
  The({ IF ~BelowTarget(getContrastRatio(text, bg)) THEN text
        ELSE IF 2 * getColorLuminance(bg) > LumOne
             THEN The({ AdjustedOr(adjustedColor, bg, "#000000") :
                        adjustedColor \in {AdjustLoop(text, bg, -1, 0)} })
             ELSE The({ AdjustedOr(adjustedColor, bg, "#FFFFFF") :
                        adjustedColor \in {AdjustLoop(text, bg, 1, 0)} }) :
        text \in {textColor}, bg \in {backgroundColor} })


(***************************************************************************)
(* Rule configuration (retailRules.js)                                     *)
(***************************************************************************)
\* A rule configuration: the thresholds, the disclaimer, the three phrase
\* lists; `missing` names the list fields that are absent, isNull is the
\* null (or absent) rules argument
MkRules(minFontSize, unsafeTop, unsafeBottom, requiredDisclaimer, tags, claims, words, missing) ==
  [isNull |-> FALSE, minFontSize |-> minFontSize, unsafeTop |-> unsafeTop,
   unsafeBottom |-> unsafeBottom, requiredDisclaimer |-> requiredDisclaimer,
   allowedTagPhrases |-> tags, prohibitedClaims |-> claims,
   prohibitedWords |-> words, missing |-> missing]

DefaultProhibitedClaims ==
  <<"best", "cheapest", "lowest price", "guaranteed", "always", "never",
    "100%", "free", "no risk", "proven", "miracle", "instant", "secret">>

DefaultProhibitedWords ==
  <<"free", "guarantee", "warranty", "promise", "certified", "official",
    "approved", "recommended by doctors", "clinically proven">>

defaultRetailRules ==
  MkRules(20, 200, 250, "Selected stores. While stocks last.",
          <<"Only at Tesco", "Available at Tesco", "Exclusive to Tesco", "Tesco Exclusive">>,
          DefaultProhibitedClaims, DefaultProhibitedWords, {})

\* getRetailRules(): rules/tesco.json only overrides the thresholds, the
\* disclaimer and the tag phrases; the prohibited lists are always the
\* defaults.  The file is not part of the sources: the defaults stand.
getRetailRules == defaultRetailRules

\* the literal both checkCompliance and applyAutoFix fall back to when no
\* rules are passed
FallbackRules ==
  MkRules(20, 200, 250, "Selected stores. While stocks last.",
          <<"Only at Tesco", "Available at Tesco">>, <<>>, <<>>,
          {"prohibitedClaims", "prohibitedWords"})

NullRules == [FallbackRules EXCEPT !.isNull = TRUE]

\* rules || { ...defaults }
RulesOrFallback(rules) == IF rules.isNull THEN FallbackRules ELSE rules

\* list || default-list
ListOr(rules, field, default) ==
  IF field \in rules.missing THEN default ELSE rules[field]

(***************************************************************************)
(* Scene model                                                             *)
(***************************************************************************)
TextTypes == {"textbox", "text", "i-text"}

IsText(obj) == obj.type \in TextTypes

\* An element: only the fields the checker and the fixer read or write.
MkObj(type, name, text, top, height, fontSize, scaleX, scaleY, fill) ==
  [type |-> type, name |-> name, text |-> text, top |-> top, height |-> height,
   fontSize |-> fontSize, scaleX |-> scaleX, scaleY |-> scaleY, fill |-> fill]

\* x * scale with the scale in tenths: exact for the geometry of the model
\* (heights are multiples of 10)
Scaled(x, scale10) == (x * scale10) \div 10

\* Number to decimal string (template literal `${n}`)
RECURSIVE toString10(_)
toString10(n) ==
  IF n < 10 THEN Ch(DigitChars, n + 1)
  ELSE toString10(n \div 10) \o Ch(DigitChars, (n % 10) + 1)

\* objectIndex: null of a scene-global violation
NullIndex == -1

MkViolation(id, fix, objectIndex, severity) ==
  [id |-> id, fix |-> fix, objectIndex |-> objectIndex, severity |-> severity]

\* Array.prototype.some(x => textLower.includes(x)) over a phrase list
SomeIncluded(textLower, list) ==
  \E k \in 1..Len(list) : includes(textLower, list[k])

LowerAll(list) == [k \in 1..Len(list) |-> toLowerCase(list[k])]

\* the resolution of a text colour to a hex string (checks 4 of the checker
\* and the contrast fix): [threw, hex]; an object without channel r has no
\* startsWith method, and the call raises a TypeError
ResolveTextColor(textColor) ==
  IF textColor.t = "rgb"
  THEN [threw |-> FALSE, hex |-> RgbToHex(textColor.r, textColor.g, textColor.b)]
  ELSE IF textColor.t = "object" THEN [threw |-> TRUE, hex |-> ""]
  ELSE IF ~startsWith(textColor.s, "#") THEN [threw |-> FALSE, hex |-> "#000000"]
  ELSE [threw |-> FALSE, hex |-> textColor.s]

TextColorHex(fill) ==
  ResolveTextColor(IF IsFalsyColor(fill) THEN StrColor("#000000") ELSE fill)

\* The resolved rule values of one checkCompliance call
ResolvedContext(canvasData, complianceRules) ==
     [topUnsafeHeight |-> OrNum(complianceRules.unsafeTop, 200),
      bottomUnsafeHeight |-> OrNum(complianceRules.unsafeBottom, 250),
      canvasHeight |-> OrNum(canvasData.height, 1080),
      minFontSize |-> OrNum(complianceRules.minFontSize, 20),
      requiredDisclaimers |->
        <<toLowerCase(OrStr(complianceRules.requiredDisclaimer,
                            "Selected stores. While stocks last.")),
          "terms and conditions",
          "terms & conditions", "t&cs", "see terms", "subject to terms">>,
      requiredTagTexts |->
        LowerAll(ListOr(complianceRules, "allowedTagPhrases",
                        <<"Only at Tesco", "Available at Tesco">>)),
      prohibitedClaims |->
        ListOr(complianceRules, "prohibitedClaims", DefaultProhibitedClaims),
      prohibitedWords |->
        ListOr(complianceRules, "prohibitedWords", DefaultProhibitedWords),
      backgroundColor |-> getBackgroundColor(canvasData)]

CheckContext(canvasData, rules) == ResolvedContext(canvasData, RulesOrFallback(rules))

\* The violations of one text element (checks 1 to 8 of the forEach body),
\* in the order they are pushed; index is the position in objects (from 0),
\* textIndex the running count of text elements
ElementViolations(obj, index, textIndex, ctx) ==
  LET text == obj.text
      scaleX == OrNum(obj.scaleX, 10)
      scaleY == OrNum(obj.scaleY, 10)
      textTop == obj.top
      textHeight == Scaled(obj.height, scaleY)
      textBottom == textTop + textHeight
      n == toString10(textIndex)
      textColorHex == TextColorHex(obj.fill).hex
      contrastRatio == getContrastRatio(textColorHex, ctx.backgroundColor)
      textLower == toLowerCase(text)
      hasTagText == SomeIncluded(textLower, ctx.requiredTagTexts)
      V(cond, id, fix, severity) ==
        IF cond THEN <<MkViolation(id \o n, fix, index, severity)>> ELSE <<>>
  IN V(textTop < ctx.topUnsafeHeight,
       "text_unsafe_top_", "move_text_out_of_unsafe_zone", "high")
     \o V(textBottom > ctx.canvasHeight - ctx.bottomUnsafeHeight,
          "text_unsafe_bottom_", "move_text_out_of_unsafe_zone", "high")
     \o V(obj.fontSize * Max(scaleX, scaleY) < ctx.minFontSize * 10,
          "font_small_", "increase_font_size", "medium")
     \o V(BelowTarget(contrastRatio),
          "contrast_low_", "increase_text_contrast", "high")
     \o V(~hasTagText /\ includes(textLower, "tesco") /\ Len(text) < 50,
          "tag_text_incorrect_", "fix_tag_text", "high")
     \o V(SomeIncluded(textLower, ctx.prohibitedClaims),
          "prohibited_claim_", "fix_claims", "high")
     \o V(SomeIncluded(textLower, ctx.prohibitedWords),
          "unsafe_word_", "fix_unsafe_words", "medium")

IsOverlay(obj) == obj.name = "unsafeZoneTop" \/ obj.name = "unsafeZoneBottom"

\* canvasData.objects.forEach(...): the scan state after the elements from
\* position i on have been visited
RECURSIVE Scan(_, _, _, _)
Scan(objs, i, ctx, st) ==
  IF i > Len(objs) \/ st.threw THEN st
  ELSE LET obj == objs[i]
           textIndex == st.textIndex + 1
           textLower == toLowerCase(obj.text)
       IN IF IsOverlay(obj) \/ ~IsText(obj) THEN Scan(objs, i + 1, ctx, st)
          ELSE IF TextColorHex(obj.fill).threw
               THEN [st EXCEPT !.threw = TRUE, !.textIndex = textIndex]
               ELSE Scan(objs, i + 1, ctx,
                         [threw |-> FALSE,
                          textIndex |-> textIndex,
                          tagTextFound |-> st.tagTextFound
                            \/ SomeIncluded(textLower, ctx.requiredTagTexts),
                          disclaimerFound |-> st.disclaimerFound
                            \/ SomeIncluded(textLower, ctx.requiredDisclaimers),
                          violations |-> st.violations
                            \o ElementViolations(obj, i - 1, textIndex, ctx)])

\* a variant of GlobalViolations that measures the untrimmed text
GlobalViolations_Untrimmed(objs, st) ==
  (IF ~st.disclaimerFound
      /\ \E i \in 1..Len(objs) : IsText(objs[i]) /\ Len(objs[i].text) > 20
   THEN <<MkViolation("missing_disclaimer", "add_disclaimer_text", NullIndex, "medium")>>
   ELSE <<>>)
  \o (IF ~st.tagTextFound
      THEN <<MkViolation("missing_tag_text", "add_tag_text", NullIndex, "high")>>
      ELSE <<>>)

\* the two scene-global checks after the scan
GlobalViolations(objs, st) ==
  LET hasSubstantialText ==
        \E i \in 1..Len(objs) : IsText(objs[i]) /\ Len(trim(objs[i].text)) > 20
  IN (IF ~st.disclaimerFound /\ hasSubstantialText
      THEN <<MkViolation("missing_disclaimer", "add_disclaimer_text", NullIndex, "medium")>>
      ELSE <<>>)
     \o (IF ~st.tagTextFound
         THEN <<MkViolation("missing_tag_text", "add_tag_text", NullIndex, "high")>>
         ELSE <<>>)

\* a variant of ScanResult that reports the scene-global violations first
ScanResult_GlobalsFirst(objs, st) ==
  IF st.threw THEN [threw |-> TRUE, violations |-> <<>>]
  ELSE [threw |-> FALSE, violations |-> GlobalViolations(objs, st) \o st.violations]

ScanResult(objs, st) ==
  IF st.threw THEN [threw |-> TRUE, violations |-> <<>>]
  ELSE [threw |-> FALSE, violations |-> st.violations \o GlobalViolations(objs, st)]

\* a variant of checkComplianceOn without the early return
checkComplianceOn_NoEarlyReturn(canvasData, hasObjects, objs, rules) ==
  ScanResult(objs,
             Scan(objs, 1, CheckContext(canvasData, rules),
                  [threw |-> FALSE, textIndex |-> 0, tagTextFound |-> FALSE,
                   disclaimerFound |-> FALSE, violations |-> <<>>]))

\* checkCompliance(canvasData, rules) on the dereferenced element list objs;
\* hasObjects is false when canvasData.objects is missing or no array.
\* The result is [threw, violations].
checkComplianceOn(canvasData, hasObjects, objs, rules) ==
  IF ~hasObjects THEN [threw |-> FALSE, violations |-> <<>>]
  ELSE ScanResult(objs,
                  Scan(objs, 1, CheckContext(canvasData, rules),
                       [threw |-> FALSE, textIndex |-> 0, tagTextFound |-> FALSE,
                        disclaimerFound |-> FALSE, violations |-> <<>>]))


(***************************************************************************)
(* Local sanitization (the fallback of the rewrite fixes)                  *)
(***************************************************************************)
\* \w of a regular expression
WordChars == CharsOf(LowerChars) \cup CharsOf(UpperChars) \cup CharsOf(DigitChars) \cup {"_"}

IsWordAt(s, j) == j >= 1 /\ j <= Len(s) /\ Ch(s, j) \in WordChars

\* \b before position k
Boundary(s, k) == IsWordAt(s, k - 1) # IsWordAt(s, k)

\* new RegExp(`\\b${word}\\b`, 'gi') matches at position i of s (ls and lw
\* are s and the word in lower case)
MatchAt(s, ls, lw, i) ==
  /\ i + Len(lw) - 1 <= Len(s)
  /\ SubSeq(ls, i, i + Len(lw) - 1) = lw
  /\ Boundary(s, i)
  /\ Boundary(s, i + Len(lw))

\* the positions from i on where the expression matches
MatchesFrom(s, ls, lw, i) == { j \in i..Len(s) : MatchAt(s, ls, lw, j) }

\* sanitized.replace(regex, ''): every match, left to right, is removed; the
\* search goes on behind the match (for the empty word: one position on,
\* with nothing removed)
RECURSIVE RemoveFrom(_, _, _, _)
RemoveFrom(s, ls, lw, from) ==
  The({ IF matches = {} THEN SubSeq(s, from, Len(s))
        ELSE The({ SubSeq(s, from, j - 1 + (IF Len(lw) = 0 THEN 1 ELSE 0))
                   \o RemoveFrom(s, ls, lw, j + Max(Len(lw), 1)) :
                   j \in {CHOOSE m \in matches : \A n \in matches : m <= n} }) :
        matches \in {MatchesFrom(s, ls, lw, from)} })

RemoveWord(str, word) ==
  The({ RemoveFrom(s, ls, lw, 1) :
        s \in {str}, ls \in {toLowerCase(str)}, lw \in {toLowerCase(word)} })

\* prohibited.forEach(word => sanitized = sanitized.replace(...))
RECURSIVE RemoveWords(_, _, _)
RemoveWords(str, words, k) ==
  The({ IF k > Len(words) THEN s ELSE RemoveWords(RemoveWord(s, words[k]), words, k + 1) :
        s \in {str} })

\* replace(/\s+/g, ' ')
CollapseSpaces(str) ==
  The({ Concat(kept, 1, Len(kept)) :
        kept \in { [i \in 1..Len(s) |->
                     IF Ch(s, i) = " " /\ i < Len(s) /\ Ch(s, i + 1) = " " THEN ""
                     ELSE Ch(s, i)] : s \in {str} } })

\* the else branch of the rewrite fix: the terms come from getRetailRules()
\* rules.prohibitedClaims?.concat(rules.prohibitedWords || []) || []
Prohibited(r) ==
  IF "prohibitedClaims" \in r.missing THEN <<>>
  ELSE r.prohibitedClaims
       \o (IF "prohibitedWords" \in r.missing THEN <<>> ELSE r.prohibitedWords)

Sanitize(currentText) ==
  OrStr(trim(CollapseSpaces(RemoveWords(currentText, Prohibited(getRetailRules), 1))),
        "Only at Tesco")


(***************************************************************************)
(* State                                                                   *)
(***************************************************************************)
VARIABLES
  heap,        \* element store: heap[ref] is the element with reference ref
  arrays,      \* array store: arrays[a] is a sequence of element references
  canvasData,  \* the caller's scene: [height, backgroundColor, objects]
               \* (objects is an array reference, 0 when missing)
  rules,       \* the rule configuration the caller passes
  openai,      \* options.openai: TRUE when a provider client is passed
  issues,      \* the violation list passed to applyAutoFix
  detected,    \* result of checkCompliance on the caller's scene
  fx,          \* the running applyAutoFix call
  log,         \* history: one entry per loop iteration of applyAutoFix
  after,       \* result of checkCompliance on the returned scene
  callerScene, \* history: the caller's elements when applyAutoFix was called
  parked,      \* a second applyAutoFix call that waits at an await: [fx, log, issues]
  copy,        \* the running POST /api/fix-copy request
  gen,         \* the running POST /api/generate-image request
  sidebar      \* the sidebar's automatic compliance re-check

vars == <<heap, arrays, canvasData, rules, openai, issues, detected, fx, log,
          after, callerScene, parked, copy, gen, sidebar>>

\* canvasData.objects holds something that is no array
NotAnArray == -1

\* canvasData.objects && Array.isArray(canvasData.objects)
HasArray(cd) == cd.objects > 0

\* the elements of a scene, dereferenced
Objects(cd) ==
  IF ~HasArray(cd) THEN <<>>
  ELSE [i \in 1..Len(arrays[cd.objects]) |-> heap[arrays[cd.objects][i]]]

checkCompliance(cd, r) == checkComplianceOn(cd, HasArray(cd), Objects(cd), r)

(***************************************************************************)
(* applyAutoFix                                                            *)
(***************************************************************************)
\* a variant of DeepClone that hands back the caller's own scene
DeepClone_Shallow(cd) == [heap |-> heap, arrays |-> arrays, fixedData |-> cd]

\* a variant of DeepClone that clones once and hands the same clone to every
\* later call
DeepClone_Memoised(cd) ==
  IF ~HasArray(cd) THEN [heap |-> heap, arrays |-> arrays, fixedData |-> cd]
  ELSE IF Len(arrays) > 1
       THEN [heap |-> heap, arrays |-> arrays, fixedData |-> [cd EXCEPT !.objects = 2]]
       ELSE [heap |-> heap \o [i \in 1..Len(arrays[cd.objects]) |-> heap[arrays[cd.objects][i]]],
             arrays |-> Append(arrays, [i \in 1..Len(arrays[cd.objects]) |-> Len(heap) + i]),
             fixedData |-> [cd EXCEPT !.objects = Len(arrays) + 1]]

\* JSON.parse(JSON.stringify(canvasData)): a new array of new elements with
\* the same field values; the result is [heap, arrays, fixedData]
DeepClone(cd) ==
  IF ~HasArray(cd) THEN [heap |-> heap, arrays |-> arrays, fixedData |-> cd]
  ELSE LET src == arrays[cd.objects]
           n == Len(heap)
       IN [heap |-> heap \o [i \in 1..Len(src) |-> heap[src[i]]],
           arrays |-> Append(arrays, [i \in 1..Len(src) |-> n + i]),
           fixedData |-> [cd EXCEPT !.objects = Len(arrays) + 1]]

\* (severityOrder[v.severity] || 1) with severityOrder = {high: 0, medium: 1, low: 2}
SeverityRank(v) ==
  OrNum(IF v.severity = "high" THEN 0
        ELSE IF v.severity = "medium" THEN 1
        ELSE IF v.severity = "low" THEN 2
        ELSE 0, 1)

\* [...violations].sort((a, b) => rank(a) - rank(b)): the sort is stable
SortedViolations(violations) ==
  SelectSeq(violations, LAMBDA v : SeverityRank(v) = 0)
  \o SelectSeq(violations, LAMBDA v : SeverityRank(v) = 1)
  \o SelectSeq(violations, LAMBDA v : SeverityRank(v) = 2)

\* `${violation.fix}_${violation.objectIndex || 'global'}`
FixKey(v) ==
  v.fix \o "_" \o (IF v.objectIndex = NullIndex \/ v.objectIndex = 0 THEN "global"
                   ELSE toString10(v.objectIndex))

\* the resolved values of one applyAutoFix call
FixContext(fixedData, optRules) ==
  LET r == RulesOrFallback(optRules)
  IN [rules |-> r,
      topUnsafeHeight |-> OrNum(r.unsafeTop, 200),
      bottomUnsafeHeight |-> OrNum(r.unsafeBottom, 250),
      canvasHeight |-> OrNum(fixedData.height, 1080),
      minFontSize |-> OrNum(r.minFontSize, 20)]

\* case 'move_text_out_of_unsafe_zone'
MoveOutOfUnsafeZone(obj, ctx) ==
  LET textTop == obj.top
      textHeight == Scaled(obj.height, OrNum(obj.scaleY, 10))
      textBottom == textTop + textHeight
  IN IF textTop < ctx.topUnsafeHeight
     THEN [obj EXCEPT !.top = ctx.topUnsafeHeight + 10]
     ELSE IF textBottom > ctx.canvasHeight - ctx.bottomUnsafeHeight
          THEN [obj EXCEPT !.top = Max(ctx.topUnsafeHeight + 10,
                                       ctx.canvasHeight - ctx.bottomUnsafeHeight
                                         - textHeight - 10)]
          ELSE obj

\* a variant of IncreaseFontSize that resets the scale and keeps the font size
IncreaseFontSize_ScaleOnly(obj, ctx) == [obj EXCEPT !.scaleX = 10, !.scaleY = 10]

\* case 'increase_font_size'
IncreaseFontSize(obj, ctx) ==
  LET currentSize10 == obj.fontSize * Max(OrNum(obj.scaleX, 10), OrNum(obj.scaleY, 10))
  IN IF currentSize10 < ctx.minFontSize * 10
     THEN [obj EXCEPT !.fontSize = Max(OrNum(obj.fontSize, 12), ctx.minFontSize),
                      !.scaleX = 10, !.scaleY = 10]
     ELSE obj

\* case 'increase_text_contrast' (for a fill that does not raise)
IncreaseTextContrast(obj, fixedData) ==
  [obj EXCEPT !.fill =
     StrColor(fixTextContrast(TextColorHex(obj.fill).hex, getBackgroundColor(fixedData)))]

\* case 'add_disclaimer_text': the presence check
HasDisclaimer(objs) ==
  \E i \in 1..Len(objs) :
    /\ IsText(objs[i])
    /\ LET text == toLowerCase(objs[i].text)
       IN includes(text, "terms")
          /\ (includes(text, "condition") \/ includes(text, "apply"))

\* case 'add_disclaimer_text': the element that is pushed
DisclaimerText(ctx) ==
  MkObj("textbox", "",
        OrStr(ctx.rules.requiredDisclaimer, "Selected stores. While stocks last."),
        ctx.canvasHeight - ctx.bottomUnsafeHeight - 30, 20, 20, 0, 0,
        StrColor("#000000"))

\* case 'add_tag_text': the presence check
HasTagText(objs, ctx) ==
  LET allowedTags == LowerAll(ListOr(ctx.rules, "allowedTagPhrases",
                                     <<"Only at Tesco", "Available at Tesco">>))
  IN \E i \in 1..Len(objs) :
       IsText(objs[i]) /\ SomeIncluded(toLowerCase(objs[i].text), allowedTags)

\* a variant of TagTextValue that ignores the rules
TagTextValue_Default(ctx) == "Only at Tesco"

\* rules?.allowedTagPhrases?.[0] || 'Only at Tesco'
TagTextValue(ctx) ==
  IF "allowedTagPhrases" \in ctx.rules.missing \/ Len(ctx.rules.allowedTagPhrases) = 0
  THEN "Only at Tesco"
  ELSE OrStr(ctx.rules.allowedTagPhrases[1], "Only at Tesco")

\* case 'add_tag_text': the element that is pushed
TagText(ctx) ==
  MkObj("textbox", "", TagTextValue(ctx), ctx.topUnsafeHeight + 20, 30, 24, 0, 0,
        StrColor("#0066CC"))

SyncFixes == {"move_text_out_of_unsafe_zone", "increase_font_size", "increase_text_contrast"}
GlobalFixes == {"add_disclaimer_text", "add_tag_text"}
RewriteFixes == {"fix_tag_text", "fix_claims", "fix_unsafe_words"}


(***************************************************************************)
(* Inputs                                                                  *)
(***************************************************************************)
White == StrColor("#FFFFFF")
Black == StrColor("#000000")

SampleHeadline == MkObj("textbox", "", "Sample Headline", 50, 30, 16, 10, 10, StrColor("#ffffff"))
SampleCTA == MkObj("text", "", "Sample CTA", 900, 30, 18, 10, 10, StrColor("#999999"))
GoodTag == MkObj("textbox", "", "Only at Tesco", 300, 30, 24, 10, 10, Black)
TescoDeal == MkObj("i-text", "", "Tesco deal", 400, 30, 24, 0, 0, Black)
LowContrast == MkObj("textbox", "", "Low contrast", 400, 30, 24, 10, 10, StrColor("#cccccc"))
Headline ==
  MkObj("textbox", "", "A substantial headline that requires a disclaimer", 400, 50, 24, 10, 10, Black)
BestPrice == MkObj("textbox", "", "Best price guaranteed", 400, 30, 24, 10, 10, NoColor)
FreeOnly == MkObj("textbox", "", "free", 400, 30, 24, 10, 10, Black)
HalfScale == MkObj("textbox", "", "Half", 760, 100, 30, 5, 5, RgbColor(0, 0, 0))
TopToBottom == MkObj("textbox", "", "Tall", 150, 700, 24, 10, 10, Black)
TermsApply == MkObj("textbox", "", "Terms apply", 400, 30, 24, 10, 10, Black)
Overlay == MkObj("rect", "unsafeZoneTop", "", 0, 200, 0, 10, 10, StrColor("rgba(255,0,0,0.2)"))
Image == MkObj("image", "", "", 0, 500, 0, 10, 10, NoColor)

Catalog ==
  {SampleHeadline, SampleCTA, GoodTag, TescoDeal, TopToBottom, Headline,
   BestPrice, FreeOnly, HalfScale, TermsApply, Overlay, Image}

\* the longest scene of the model
MaxObjects == 2

Scenes == UNION { [1..n -> Catalog] : n \in 0..MaxObjects }

CustomRules ==
  MkRules(24, 100, 100, "T&Cs apply", <<"Only at Asda">>, <<"cheap">>, <<"wow">>, {})

EmptyListRules ==
  MkRules(20, 200, 250, "Selected stores. While stocks last.", <<>>, <<>>, <<>>, {})

RuleSets == {defaultRetailRules, NullRules, CustomRules, EmptyListRules}

Backgrounds == {White, Black, StrColor("#808080"), NoColor, RgbColor(16, 16, 16)}

Heights == {1080, 0, 400}

\* what a provider call can deliver: "" is an empty response
ProviderTexts == {"", "Great value", "Only at Tesco"}

NotRun == [done |-> FALSE, threw |-> FALSE, violations |-> <<>>]

IdleFix ==
  [pc |-> "idle", fixedData |-> [height |-> 0, backgroundColor |-> NoColor, objects |-> 0],
   sorted |-> <<>>, i |-> 1, appliedFixes |-> {}, currentText |-> ""]

\* the near-miss tag of the test suite, texts around the length gate of
\* the disclaimer check, a generic disclaimer
wrongTag == MkObj("textbox", "", "Only at Tesc", 400, 30, 24, 10, 10, Black)
TwentyChars == MkObj("textbox", "", "  Exactly twenty chars  ", 400, 30, 24, 10, 10, Black)
TsAndCs == MkObj("textbox", "", "See our T&Cs", 400, 30, 24, 10, 10, Black)

\* a text that holds a prohibited term inside a longer word
Freebies == MkObj("textbox", "", "Freebies", 400, 30, 24, 10, 10, Black)

\* texts with terms of the custom lists and of the default lists
CheapWow == MkObj("textbox", "", "cheap wow deal", 400, 30, 24, 10, 10, Black)
FreeAtTesco == MkObj("textbox", "", "Free at Tesco", 400, 30, 24, 10, 10, Black)

RuleScenes == {<<CheapWow>>, <<FreeAtTesco>>}

ExtraScenes ==
  {<<wrongTag>>, <<GoodTag, wrongTag>>, <<GoodTag, TwentyChars>>,
   <<Headline, TsAndCs>>, <<GoodTag, Headline>>, <<GoodTag, Freebies>>}

\* The caller holds a scene of up to MaxObjects catalog elements; the
\* configuration varies freely for scenes of at most one element and is the
\* default one (white background, default rules, no provider) otherwise.
\* interleaved notes that the two calls were switched while both were
\* suspended in their loops
NoCall == [fx |-> IdleFix, log |-> <<>>, issues |-> <<>>, interleaved |-> FALSE]

\* no /api/fix-copy request: called lists the providers the handler called
\* with the outcome of each call, status is the HTTP status of the response
NoCopy ==
  [pc |-> "idle", headline |-> "", hasGroq |-> FALSE, hasOpenAI |-> FALSE,
   called |-> <<>>, correctedHeadline |-> "", warning |-> FALSE, status |-> 0]

\* no /api/generate-image request: called lists the image providers the
\* handler called with the outcome of each, attempts counts the polls of the
\* Replicate prediction, model and endpoint are the positions of the
\* Hugging Face loops
NoGen ==
  [pc |-> "idle", hasReplicate |-> FALSE, hasHuggingFace |-> FALSE, hasOpenAI |-> FALSE,
   called |-> <<>>, attempts |-> 0, model |-> 1, endpoint |-> 1, status |-> 0]

\* the sidebar before the canvas exists
\* the sidebar before it is mounted
NoSidebar ==
  [mounted |-> FALSE, canvas |-> <<>>, edits |-> 0, timer |-> FALSE, inflight |-> {},
   started |-> 0, complianceIssues |-> <<>>, storedFrom |-> 0, isChecking |-> FALSE,
   failed |-> FALSE]

\* objectsRef is 1 (the array of objs), 0 (objects missing) or NotAnArray
InitWith(objs, objectsRef, height, bg, r, provider) ==
  /\ heap = objs
  /\ arrays = << [i \in 1..Len(objs) |-> i] >>
  /\ canvasData = [height |-> height, backgroundColor |-> bg, objects |-> objectsRef]
  /\ rules = r
  /\ openai = provider
  /\ issues = <<>>
  /\ detected = NotRun
  /\ fx = IdleFix
  /\ log = <<>>
  /\ after = NotRun
  /\ callerScene = <<>>
  /\ parked = NoCall
  /\ copy = NoCopy
  /\ gen = NoGen
  /\ sidebar = NoSidebar

InitScene(objs, height, bg, r, provider) == InitWith(objs, 1, height, bg, r, provider)

Init ==
  \/ \E objs \in Scenes \cup ExtraScenes, provider \in BOOLEAN :
       InitScene(objs, 1080, White, defaultRetailRules, provider)
  \/ \E objs \in { s \in Scenes : Len(s) <= 1 }, h \in Heights, bg \in Backgrounds,
        r \in RuleSets :
       InitScene(objs, h, bg, r, FALSE)
  \/ \E objectsRef \in {0, NotAnArray}, bg \in Backgrounds, r \in RuleSets :
       InitWith(<<>>, objectsRef, 1080, bg, r, FALSE)
  \/ \E objs \in RuleScenes, r \in RuleSets :
       InitScene(objs, 1080, White, r, FALSE)

(***************************************************************************)
(* Operations                                                              *)
(***************************************************************************)
\* a variant of CheckCompliance that writes the default scale into the
\* elements it reads
CheckCompliance_Writes ==
  /\ ~detected.done
  /\ fx.pc = "idle"
  /\ detected' = [done |-> TRUE, threw |-> checkCompliance(canvasData, rules).threw,
                  violations |-> checkCompliance(canvasData, rules).violations]
  /\ issues' = detected'.violations
  /\ heap' = [r \in DOMAIN heap |->
                [heap[r] EXCEPT !.scaleX = OrNum(@, 10), !.scaleY = OrNum(@, 10)]]
  /\ UNCHANGED <<arrays, canvasData, rules, openai, fx, log, after, callerScene>>
  /\ UNCHANGED <<parked, copy, gen, sidebar>>

\* POST /api/check-compliance: the caller checks its scene and keeps the
\* violations as the issues it will ask to fix
CheckCompliance ==
  /\ ~detected.done
  /\ fx.pc = "idle"
  /\ LET res == checkCompliance(canvasData, rules)
     IN /\ detected' = [done |-> TRUE, threw |-> res.threw, violations |-> res.violations]
        /\ issues' = res.violations
  /\ UNCHANGED <<heap, arrays, canvasData, rules, openai, fx, log, after, callerScene>>
  /\ UNCHANGED <<parked, copy, gen, sidebar>>

\* the head of applyAutoFix(canvasData, violations, options): the clone, the
\* resolved options, the sort
EnterApplyAutoFix(violations) ==
  /\ LET c == DeepClone(canvasData)
     IN /\ heap' = c.heap
        /\ arrays' = c.arrays
        /\ fx' = [pc |-> "loop", fixedData |-> c.fixedData,
                  sorted |-> SortedViolations(violations), i |-> 1,
                  appliedFixes |-> {}, currentText |-> ""]
  /\ issues' = violations
  /\ callerScene' = Objects(canvasData)

\* the caller passes the detector's list of its scene to applyAutoFix
CallApplyAutoFix ==
  /\ detected.done /\ ~detected.threw
  /\ fx.pc = "idle"
  /\ EnterApplyAutoFix(issues)
  /\ UNCHANGED <<canvasData, rules, openai, detected, log, after>>
  /\ UNCHANGED <<parked, copy, gen, sidebar>>

\* the violation of the current loop iteration and its target
Current == fx.sorted[fx.i]
InLoop == fx.pc = "loop" /\ fx.i <= Len(fx.sorted)
FixedArray == arrays[fx.fixedData.objects]
\* a variant of HasTarget that accepts an element of any type
HasTarget_AnyType(v) ==
  /\ v.objectIndex # NullIndex
  /\ v.objectIndex + 1 <= Len(FixedArray)

\* the violation names an element of the copy that is a text element
HasTarget(v) ==
  /\ v.objectIndex # NullIndex
  /\ v.objectIndex + 1 <= Len(FixedArray)
  /\ IsText(heap[FixedArray[v.objectIndex + 1]])

\* a variant of TargetRef that always takes the first element
TargetRef_First(v) == FixedArray[1]

\* fixedData.objects[violation.objectIndex]
TargetRef(v) == FixedArray[v.objectIndex + 1]
Ctx == FixContext(fx.fixedData, rules)

\* a variant of EndIterationWith that stays at the violation it dispatched
EndIterationWith_Stay(applied, raised, answer) ==
  /\ fx' = [fx EXCEPT !.pc = "loop",
                      !.appliedFixes = IF applied THEN @ \cup {FixKey(Current)} ELSE @]
  /\ log' = Append(log, [v |-> Current, applied |-> applied, raised |-> raised,
                         answer |-> answer])

\* the end of a loop iteration; the log notes whether appliedFixes.add was
\* reached and whether the iteration went through catch (llmError)
\* and the provider's answer when there was one
EndIterationWith(applied, raised, answer) ==
  /\ fx' = [fx EXCEPT !.pc = "loop", !.i = @ + 1,
                      !.appliedFixes = IF applied THEN @ \cup {FixKey(Current)} ELSE @]
  /\ log' = Append(log, [v |-> Current, applied |-> applied, raised |-> raised,
                         answer |-> answer])

EndIteration(applied, raised) == EndIterationWith(applied, raised, "")

\* a variant of NextIteration that never records the key
NextIteration_Forget(applied) ==
  /\ fx' = [fx EXCEPT !.pc = "loop", !.i = @ + 1]
  /\ log' = Append(log, [v |-> Current, applied |-> applied, raised |-> FALSE,
                         answer |-> ""])

\* the end of an iteration that did not raise
NextIteration(applied) == EndIteration(applied, FALSE)

\* the iteration reads fixedData.objects
ReadsObjects(v) ==
  \/ v.fix \in GlobalFixes
  \/ (v.fix \in SyncFixes \cup RewriteFixes /\ v.objectIndex # NullIndex)

\* iterations without effect: the key was applied, the directive is empty or
\* unknown, or the target is missing or no text element
SkipViolation ==
  /\ InLoop
  /\ \/ FixKey(Current) \in fx.appliedFixes
     \/ Current.fix = ""
     \/ Current.fix \notin SyncFixes \cup GlobalFixes \cup RewriteFixes
     \/ /\ Current.fix \in SyncFixes \cup RewriteFixes
        /\ fx.fixedData.objects # 0
        /\ Current.objectIndex # NullIndex
        /\ (IF HasArray(fx.fixedData) THEN ~HasTarget(Current) ELSE TRUE)
     \/ /\ Current.fix \in SyncFixes \cup RewriteFixes
        /\ Current.objectIndex = NullIndex
  /\ NextIteration(FALSE)
  /\ UNCHANGED <<heap, arrays, canvasData, rules, openai, issues, detected, after, callerScene>>
  /\ UNCHANGED <<parked, copy, gen, sidebar>>

\* fixedData.objects is undefined, or the fill has no startsWith: the
\* iteration raises a TypeError and applyAutoFix rejects
DispatchThrows ==
  /\ InLoop
  /\ FixKey(Current) \notin fx.appliedFixes
  /\ \/ fx.fixedData.objects = 0 /\ ReadsObjects(Current)
     \/ fx.fixedData.objects = NotAnArray /\ Current.fix \in GlobalFixes
     \/ /\ HasArray(fx.fixedData)
        /\ Current.fix = "increase_text_contrast"
        /\ HasTarget(Current)
        /\ TextColorHex(heap[TargetRef(Current)].fill).threw
  /\ fx' = [fx EXCEPT !.pc = "failed"]
  /\ UNCHANGED <<heap, arrays, canvasData, rules, openai, issues, detected, log, after, callerScene>>
  /\ UNCHANGED <<parked, copy, gen, sidebar>>

\* the three element fixes that complete without suspension
ApplySyncFix ==
  /\ InLoop
  /\ FixKey(Current) \notin fx.appliedFixes
  /\ Current.fix \in SyncFixes
  /\ HasArray(fx.fixedData)
  /\ HasTarget(Current)
  /\ LET obj == heap[TargetRef(Current)]
     IN /\ Current.fix = "increase_text_contrast" => ~TextColorHex(obj.fill).threw
        /\ heap' = [heap EXCEPT ![TargetRef(Current)] =
                      IF Current.fix = "move_text_out_of_unsafe_zone"
                      THEN MoveOutOfUnsafeZone(obj, Ctx)
                      ELSE IF Current.fix = "increase_font_size"
                           THEN IncreaseFontSize(obj, Ctx)
                           ELSE IncreaseTextContrast(obj, fx.fixedData)]
  /\ NextIteration(TRUE)
  /\ UNCHANGED <<arrays, canvasData, rules, openai, issues, detected, after, callerScene>>
  /\ UNCHANGED <<parked, copy, gen, sidebar>>

\* add_disclaimer_text / add_tag_text: push a new element unless one is present
ApplyGlobalFix ==
  /\ InLoop
  /\ FixKey(Current) \notin fx.appliedFixes
  /\ Current.fix \in GlobalFixes
  /\ HasArray(fx.fixedData)
  /\ LET objs == Objects(fx.fixedData)
         present == IF Current.fix = "add_disclaimer_text" THEN HasDisclaimer(objs)
                    ELSE HasTagText(objs, Ctx)
         new == IF Current.fix = "add_disclaimer_text" THEN DisclaimerText(Ctx)
                ELSE TagText(Ctx)
     IN IF present
        THEN /\ NextIteration(FALSE)
             /\ UNCHANGED <<heap, arrays>>
        ELSE /\ heap' = Append(heap, new)
             /\ arrays' = [arrays EXCEPT ![fx.fixedData.objects] = Append(@, Len(heap) + 1)]
             /\ NextIteration(TRUE)
  /\ UNCHANGED <<canvasData, rules, openai, issues, detected, after, callerScene>>
  /\ UNCHANGED <<parked, copy, gen, sidebar>>

\* fix_tag_text / fix_claims / fix_unsafe_words: the text is read and the
\* call suspends at `await import('./retailRules.js')`
BeginRewrite ==
  /\ InLoop
  /\ FixKey(Current) \notin fx.appliedFixes
  /\ Current.fix \in RewriteFixes
  /\ HasArray(fx.fixedData)
  /\ HasTarget(Current)
  /\ fx' = [fx EXCEPT !.pc = "await_import",
                      !.currentText = heap[TargetRef(Current)].text]
  /\ UNCHANGED <<heap, arrays, canvasData, rules, openai, issues, detected, log, after, callerScene>>
  /\ UNCHANGED <<parked, copy, gen, sidebar>>

\* no provider: local sanitization of the text that was read
SanitizeLocally ==
  /\ fx.pc = "await_import"
  /\ ~openai
  /\ heap' = [heap EXCEPT ![TargetRef(Current)].text = Sanitize(fx.currentText)]
  /\ NextIteration(TRUE)
  /\ UNCHANGED <<arrays, canvasData, rules, openai, issues, detected, after, callerScene>>
  /\ UNCHANGED <<parked, copy, gen, sidebar>>

\* with a provider: the request is sent and the call suspends again
CallProvider ==
  /\ fx.pc = "await_import"
  /\ openai
  /\ fx' = [fx EXCEPT !.pc = "await_openai"]
  /\ UNCHANGED <<heap, arrays, canvasData, rules, openai, issues, detected, log, after, callerScene>>
  /\ UNCHANGED <<parked, copy, gen, sidebar>>

\* the provider answers: a non-empty trimmed answer replaces the text
ProviderReturns ==
  /\ fx.pc = "await_openai"
  /\ \E content \in ProviderTexts :
       LET correctedText == trim(content)
       IN IF Len(correctedText) > 0
          THEN /\ heap' = [heap EXCEPT ![TargetRef(Current)].text = correctedText]
               /\ EndIterationWith(TRUE, FALSE, correctedText)
          ELSE /\ heap' = heap
               /\ NextIteration(FALSE)
  /\ UNCHANGED <<arrays, canvasData, rules, openai, issues, detected, after, callerScene>>
  /\ UNCHANGED <<parked, copy, gen, sidebar>>

\* a variant of ProviderFails without the catch block: the error escapes
ProviderFails_Rethrows ==
  /\ fx.pc = "await_openai"
  /\ fx' = [fx EXCEPT !.pc = "failed"]
  /\ log' = Append(log, [v |-> Current, applied |-> FALSE, raised |-> TRUE,
                         answer |-> ""])
  /\ UNCHANGED <<heap, arrays, canvasData, rules, openai, issues, detected, after, callerScene>>
  /\ UNCHANGED <<parked, copy, gen, sidebar>>

\* the provider call raises: the catch block writes the default tag text
ProviderFails ==
  /\ fx.pc = "await_openai"
  /\ heap' = [heap EXCEPT ![TargetRef(Current)].text = "Only at Tesco"]
  /\ EndIteration(TRUE, TRUE)
  /\ UNCHANGED <<arrays, canvasData, rules, openai, issues, detected, after, callerScene>>
  /\ UNCHANGED <<parked, copy, gen, sidebar>>

\* return fixedData
ReturnFixed ==
  /\ fx.pc = "loop"
  /\ fx.i > Len(fx.sorted)
  /\ fx' = [fx EXCEPT !.pc = "done"]
  /\ UNCHANGED <<heap, arrays, canvasData, rules, openai, issues, detected, log, after, callerScene>>
  /\ UNCHANGED <<parked, copy, gen, sidebar>>

\* the caller re-runs the detector on the returned scene
Recheck ==
  /\ fx.pc = "done"
  /\ ~after.done
  /\ LET res == checkCompliance(fx.fixedData, rules)
     IN after' = [done |-> TRUE, threw |-> res.threw, violations |-> res.violations]
  /\ UNCHANGED <<heap, arrays, canvasData, rules, openai, issues, detected, fx, log, callerScene>>
  /\ UNCHANGED <<parked, copy, gen, sidebar>>

Next ==
  \/ CheckCompliance
  \/ CallApplyAutoFix
  \/ SkipViolation
  \/ ApplySyncFix
  \/ ApplyGlobalFix
  \/ BeginRewrite
  \/ SanitizeLocally
  \/ CallProvider
  \/ ProviderReturns
  \/ ProviderFails
  \/ ReturnFixed
  \/ Recheck

Spec == Init /\ [][Next]_vars

(***************************************************************************)
(* POST /api/auto-fix: applyAutoFix on a scene and an issue list that the  *)
(* request body supplies                                                   *)
(***************************************************************************)
\* a text element whose fill is an object without channels (a gradient)
GradientFill == MkObj("text", "", "Gradient", 400, 30, 24, 10, 10, ObjColor)

IssueScenes ==
  {<<>>, <<SampleHeadline, FreeOnly>>, <<Image, SampleHeadline>>,
   <<GradientFill, BestPrice>>, <<TermsApply, LowContrast>>}

\* the issues a request can name: indices 0 and 1, no index, an index past
\* the scene, an empty and an unknown directive, an unknown severity
IssueCatalog ==
  {MkViolation("text_unsafe_top_1", "move_text_out_of_unsafe_zone", 0, "high"),
   MkViolation("font_small_1", "increase_font_size", 0, "medium"),
   MkViolation("contrast_low_1", "increase_text_contrast", 0, "high"),
   MkViolation("contrast_low_2", "increase_text_contrast", 1, "low"),
   MkViolation("prohibited_claim_2_0", "fix_claims", 1, "high"),
   MkViolation("tag_text_incorrect_1", "fix_tag_text", 0, "urgent"),
   MkViolation("missing_tag_text", "add_tag_text", NullIndex, "high"),
   MkViolation("missing_disclaimer", "add_disclaimer_text", NullIndex, "medium"),
   MkViolation("note", "", NullIndex, "low"),
   MkViolation("font_small_6", "increase_font_size", 5, "medium"),
   MkViolation("resize_2", "resize", 1, "medium")}

\* the longest issue list of a request
MaxIssues == 2

\* the handler rejects an empty list
IssueLists == UNION { [1..n -> IssueCatalog] : n \in 1..MaxIssues }

\* the request's scene (with or without an objects array); the handler
\* passes getRetailRules() and the provider client when one is configured
InitIssues ==
  \E objs \in IssueScenes, objectsRef \in {1, 0, NotAnArray}, provider \in BOOLEAN :
    /\ objectsRef = 1 \/ objs = <<>>
    /\ InitWith(objs, objectsRef, 1080, White, getRetailRules, provider)

\* app.post('/api/auto-fix'): applyAutoFix(canvasData, issues, {openai, rules})
PostAutoFix ==
  /\ fx.pc = "idle"
  /\ \E list \in IssueLists : EnterApplyAutoFix(list)
  /\ UNCHANGED <<canvasData, rules, openai, detected, log, after>>
  /\ UNCHANGED <<parked, copy, gen, sidebar>>

NextIssues ==
  \/ PostAutoFix
  \/ SkipViolation
  \/ DispatchThrows
  \/ ApplySyncFix
  \/ ApplyGlobalFix
  \/ BeginRewrite
  \/ SanitizeLocally
  \/ CallProvider
  \/ ProviderReturns
  \/ ProviderFails
  \/ ReturnFixed

SpecIssues == InitIssues /\ [][NextIssues]_vars

(***************************************************************************)
(* fixTextContrast on its own                                              *)
(***************************************************************************)
TextColours ==
  {"#000000", "#FFFFFF", "#999999", "#cccccc", "#777777", "#010101", "#ff0000",
   "#0066CC", "#3a3a3a", "red", "", "#fff", "#12345"}

BackgroundColours ==
  {"#FFFFFF", "#000000", "#808080", "#101010", "#f0f0f0", "#777777", "#3366ff",
   "#bcbcbc", "blue", "#fff"}

\* one text element carries the text colour, the scene the background
InitContrast ==
  \E textColor \in TextColours, backgroundColor \in BackgroundColours :
    InitScene(<<MkObj("text", "", "Text", 400, 30, 24, 10, 10, StrColor(textColor))>>,
              1080, StrColor(backgroundColor), defaultRetailRules, FALSE)

\* obj.fill = fixTextContrast(textColorHex, backgroundColor, 4.5)
FixTextContrast ==
  /\ fx.pc = "idle"
  /\ heap' = [heap EXCEPT ![1].fill =
                StrColor(fixTextContrast(heap[1].fill.s, canvasData.backgroundColor.s))]
  /\ fx' = [fx EXCEPT !.pc = "contrast_fixed"]
  /\ callerScene' = heap
  /\ UNCHANGED <<arrays, canvasData, rules, openai, issues, detected, log, after>>
  /\ UNCHANGED <<parked, copy, gen, sidebar>>

NextContrast == FixTextContrast

SpecContrast == InitContrast /\ [][NextContrast]_vars

(***************************************************************************)
(* The colour forms: checkCompliance and the contrast fix on one text      *)
(* element whose fill, like the background, takes every form               *)
(***************************************************************************)
FillForms ==
  {StrColor("#999999"), StrColor("#12"), StrColor("red"), RgbColor(200, 200, 200),
   ObjColor, NoColor}

BackgroundForms == Backgrounds \cup {ObjColor, StrColor("blue"), StrColor("#12345")}

InitColours ==
  \E fill \in FillForms, bg \in BackgroundForms :
    InitScene(<<MkObj("text", "", "Colour", 400, 30, 24, 10, 10, fill)>>,
              1080, bg, defaultRetailRules, FALSE)

\* applyAutoFix(canvasData, [contrast_low_1], {rules})
RequestContrastFix ==
  /\ fx.pc = "idle"
  /\ EnterApplyAutoFix(<<MkViolation("contrast_low_1", "increase_text_contrast", 0, "high")>>)
  /\ UNCHANGED <<canvasData, rules, openai, detected, log, after, parked, copy, gen, sidebar>>

NextColours ==
  \/ CheckCompliance
  \/ RequestContrastFix
  \/ ApplySyncFix
  \/ DispatchThrows
  \/ ReturnFixed

SpecColours == InitColours /\ [][NextColours]_vars

(***************************************************************************)
(* POST /api/fix-copy with a headline and no subhead                       *)
(***************************************************************************)
\* the first alternative of /\\b(w1|w2|...)\\b/gi that matches at i, or 0
FirstMatch(s, ls, words, i) ==
  IF \E k \in 1..Len(words) : MatchAt(s, ls, words[k], i)
  THEN CHOOSE k \in 1..Len(words) :
         /\ MatchAt(s, ls, words[k], i)
         /\ \A j \in 1..(k - 1) : ~MatchAt(s, ls, words[j], i)
  ELSE 0

\* text.replace(/\\b(best|cheapest|...)\\b/gi, ''): one pass, left to right
RECURSIVE RemoveAny(_, _, _, _)
RemoveAny(s, ls, words, i) ==
  IF i > Len(s) THEN ""
  ELSE IF FirstMatch(s, ls, words, i) # 0
       THEN RemoveAny(s, ls, words, i + Len(words[FirstMatch(s, ls, words, i)]))
       ELSE Ch(s, i) \o RemoveAny(s, ls, words, i + 1)

\* the answer when neither provider is configured
FallbackSanitized(text) ==
  trim(RemoveAny(text, toLowerCase(text), DefaultProhibitedClaims, 1))

\* const rules = retailRulePack || getRetailRules()
RulePackOrDefault == IF rules.isNull THEN getRetailRules ELSE rules

\* sanitizeText of catch (llmError)
sanitizeText(text) ==
  IF text = "" THEN text
  ELSE trim(CollapseSpaces(RemoveWords(text, Prohibited(RulePackOrDefault), 1)))

\* the headlines a client sends; "" is a missing headline
Headlines == {"", "Best price guaranteed", "Fresh bread", "cheap wow deal", "  Free  gift "}

\* the environment configures either provider or none; the request body may
\* carry a retailRulePack (the null rules stand for none)
InitFixCopy ==
  \E g \in BOOLEAN, o \in BOOLEAN, r \in {NullRules, CustomRules, EmptyListRules} :
    /\ heap = <<>>
    /\ arrays = << <<>> >>
    /\ canvasData = [height |-> 1080, backgroundColor |-> White, objects |-> 1]
    /\ rules = r
    /\ openai = o
    /\ issues = <<>>
    /\ detected = NotRun
    /\ fx = IdleFix
    /\ log = <<>>
    /\ after = NotRun
    /\ callerScene = <<>>
    /\ parked = NoCall
    /\ copy = [NoCopy EXCEPT !.hasGroq = g, !.hasOpenAI = o]
    /\ gen = NoGen
    /\ sidebar = NoSidebar

UnchangedByFixCopy ==
  UNCHANGED <<heap, arrays, canvasData, rules, openai, issues, detected, fx, log, after,
              callerScene, parked, gen, sidebar>>

Answer(text, warning) ==
  [copy EXCEPT !.pc = "sent", !.status = 200, !.correctedHeadline = text,
               !.warning = warning]

Called(provider, outcome) == [provider |-> provider, outcome |-> outcome]

\* the handler up to its first await: the 400 answer, the answer without a
\* provider, or the request to Groq when it is configured and to OpenAI
\* otherwise
PostFixCopy ==
  /\ copy.pc = "idle"
  /\ \E headline \in Headlines :
       IF headline = ""
       THEN copy' = [copy EXCEPT !.pc = "sent", !.status = 400]
       ELSE IF ~copy.hasOpenAI /\ ~copy.hasGroq
            THEN copy' = [copy EXCEPT !.pc = "sent", !.status = 200, !.headline = headline,
                                      !.correctedHeadline = FallbackSanitized(headline)]
            ELSE copy' = [copy EXCEPT !.headline = headline,
                                      !.pc = IF copy.hasGroq THEN "groq" ELSE "openai",
                                      !.called = <<Called(IF copy.hasGroq THEN "groq" ELSE "openai",
                                                          "pending")>>]
  /\ UnchangedByFixCopy

\* the awaited provider answers: content?.trim() || textToFix
ProviderAnswers(provider) ==
  /\ \E content \in ProviderTexts :
       copy' = [Answer(OrStr(trim(content), copy.headline), FALSE) EXCEPT
                  !.called = <<Called(provider, IF trim(content) = "" THEN "empty"
                                                ELSE "answered")>>]
  /\ UnchangedByFixCopy

\* the awaited provider call raises (or Groq answers with !ok): catch
\* (llmError) answers with sanitizeText(headline) and the warning
ProviderRaises(provider) ==
  /\ copy' = [Answer(sanitizeText(copy.headline), TRUE) EXCEPT
                !.called = <<Called(provider, "raised")>>]
  /\ UnchangedByFixCopy

GroqResponds ==
  /\ copy.pc = "groq"
  /\ ProviderAnswers("groq")

GroqFails ==
  /\ copy.pc = "groq"
  /\ ProviderRaises("groq")

OpenAIResponds ==
  /\ copy.pc = "openai"
  /\ ProviderAnswers("openai")

OpenAIFails ==
  /\ copy.pc = "openai"
  /\ ProviderRaises("openai")

NextFixCopy ==
  \/ PostFixCopy
  \/ GroqResponds
  \/ GroqFails
  \/ OpenAIResponds
  \/ OpenAIFails

SpecFixCopy == InitFixCopy /\ [][NextFixCopy]_vars

(***************************************************************************)
(* Two applyAutoFix calls on the same scene, interleaved at their awaits   *)
(***************************************************************************)
\* the issue lists of the two calls
ConcurrentLists ==
  {<<MkViolation("prohibited_claim_2", "fix_claims", 1, "high"),
     MkViolation("missing_tag_text", "add_tag_text", NullIndex, "high")>>,
   <<MkViolation("tag_text_incorrect_1", "fix_tag_text", 0, "high"),
     MkViolation("font_small_1", "increase_font_size", 0, "medium")>>,
   <<MkViolation("text_unsafe_top_1", "move_text_out_of_unsafe_zone", 0, "high"),
     MkViolation("unsafe_word_2", "fix_unsafe_words", 1, "high")>>,
   <<MkViolation("prohibited_claim_2", "fix_claims", 1, "high"),
     MkViolation("unsafe_word_2", "fix_claims", 1, "medium")>>,
   <<MkViolation("font_small_1", "increase_font_size", 0, "medium")>>}

ConcurrentScenes == {<<SampleHeadline, FreeOnly>>, <<TermsApply, BestPrice>>}

InitConcurrent ==
  \E objs \in ConcurrentScenes, provider \in BOOLEAN :
    InitScene(objs, 1080, White, getRetailRules, provider)

\* the call that runs starts: it runs until its first await
StartCall ==
  /\ fx.pc = "idle"
  /\ \E list \in ConcurrentLists : EnterApplyAutoFix(list)
  /\ UNCHANGED <<canvasData, rules, openai, detected, log, after, parked, copy, gen, sidebar>>

Suspended(f) == f.pc \in {"await_import", "await_openai"}

\* the event loop: the running call is suspended at an await or has
\* settled, and the other call (or the caller, to start it) runs
Switch ==
  /\ Suspended(fx) \/ fx.pc \in {"done", "failed"}
  /\ parked.fx.pc \notin {"done", "failed"}
  /\ parked' = [fx |-> fx, log |-> log, issues |-> issues,
                interleaved |-> parked.interleaved \/ (Suspended(fx) /\ Suspended(parked.fx))]
  /\ fx' = parked.fx
  /\ log' = parked.log
  /\ issues' = parked.issues
  /\ UNCHANGED <<heap, arrays, canvasData, rules, openai, detected, after, callerScene, copy,
                 gen, sidebar>>

NextConcurrent ==
  \/ StartCall
  \/ Switch
  \/ SkipViolation
  \/ ApplySyncFix
  \/ ApplyGlobalFix
  \/ BeginRewrite
  \/ SanitizeLocally
  \/ CallProvider
  \/ ProviderReturns
  \/ ProviderFails
  \/ ReturnFixed

SpecConcurrent == InitConcurrent /\ [][NextConcurrent]_vars

(***************************************************************************)
(* POST /api/generate-image                                                *)
(***************************************************************************)
\* const maxAttempts = 60: the polls of a Replicate prediction
ReplicateMaxAttempts == 60

\* the models and, for each, the endpoint formats of the Hugging Face branch
HFModels ==
  <<"runwayml/stable-diffusion-v1-5", "stabilityai/stable-diffusion-xl-base-1.0",
    "CompVis/stable-diffusion-v1-4">>

HFEndpointFormats ==
  <<"https://router.huggingface.co/hf-inference/models/",
    "https://router.huggingface.co/models/",
    "https://api-inference.huggingface.co/models/">>

\* "" and "   " are a missing prompt
Prompts == {"", "   ", "A basket of apples"}

\* what is thrown into catch (openaiError): the status it carries (0 for
\* none) and whether its code or message names the billing limit
Errors ==
  [status : {0, 400, 401, 429}, billing : BOOLEAN]

PlainErrors == { e \in Errors : e.status = 0 }

\* the status catch (openaiError) answers with
CatchStatus(e) ==
  IF e.billing THEN 402
  ELSE IF e.status \in {400, 429, 401} THEN e.status ELSE 500

InitGenerate ==
  \E r \in BOOLEAN, h \in BOOLEAN, o \in BOOLEAN :
    /\ heap = <<>>
    /\ arrays = << <<>> >>
    /\ canvasData = [height |-> 1080, backgroundColor |-> White, objects |-> 1]
    /\ rules = getRetailRules
    /\ openai = o
    /\ issues = <<>>
    /\ detected = NotRun
    /\ fx = IdleFix
    /\ log = <<>>
    /\ after = NotRun
    /\ callerScene = <<>>
    /\ parked = NoCall
    /\ copy = NoCopy
    /\ gen = [NoGen EXCEPT !.hasReplicate = r, !.hasHuggingFace = h, !.hasOpenAI = o]
    /\ sidebar = NoSidebar

UnchangedByGenerate ==
  UNCHANGED <<heap, arrays, canvasData, rules, openai, issues, detected, fx, log, after,
              callerScene, parked, copy, sidebar>>

\* Priority: Replicate > Hugging Face > OpenAI
FirstProvider ==
  IF gen.hasReplicate THEN "replicate"
  ELSE IF gen.hasHuggingFace THEN "huggingface" ELSE "openai"

\* the handler up to its first await
PostGenerateImage ==
  /\ gen.pc = "idle"
  /\ \E prompt \in Prompts :
       IF trim(prompt) = "" \/ (~gen.hasOpenAI /\ ~gen.hasHuggingFace /\ ~gen.hasReplicate)
       THEN gen' = [gen EXCEPT !.pc = "sent", !.status = 400]
       ELSE gen' = [gen EXCEPT !.pc = FirstProvider,
                               !.called = <<Called(FirstProvider, "pending")>>]
  /\ UnchangedByGenerate

\* the running provider's branch has thrown e: catch (openaiError) answers
Thrown(e) ==
  gen' = [gen EXCEPT !.pc = "sent", !.status = CatchStatus(e),
                     !.called = [@ EXCEPT ![Len(@)].outcome = "failed"]]

\* the running provider's branch has set imageBuffer
Generated ==
  gen' = [gen EXCEPT !.pc = "save", !.called = [@ EXCEPT ![Len(@)].outcome = "ok"]]

\* POST /v1/predictions answers ok
ReplicateCreated ==
  /\ gen.pc = "replicate"
  /\ gen' = [gen EXCEPT !.pc = "replicate_poll"]
  /\ UnchangedByGenerate

\* POST /v1/predictions rejects or answers !ok
ReplicateRejects ==
  /\ gen.pc = "replicate"
  /\ \E e \in PlainErrors : Thrown(e)
  /\ UnchangedByGenerate

\* a poll finds the prediction neither succeeded nor failed; after
\* maxAttempts of them the prediction timed out
ReplicateStillRunning ==
  /\ gen.pc = "replicate_poll"
  /\ gen.attempts < ReplicateMaxAttempts
  /\ IF gen.attempts + 1 < ReplicateMaxAttempts
     THEN gen' = [gen EXCEPT !.attempts = @ + 1]
     ELSE gen' = [gen EXCEPT !.attempts = @ + 1, !.pc = "sent", !.status = 500,
                             !.called = [@ EXCEPT ![Len(@)].outcome = "failed"]]
  /\ UnchangedByGenerate

\* a poll finds status 'succeeded' with an output
ReplicateSucceeded ==
  /\ gen.pc = "replicate_poll"
  /\ gen.attempts < ReplicateMaxAttempts
  /\ gen' = [gen EXCEPT !.pc = "replicate_download"]
  /\ UnchangedByGenerate

\* a poll finds status 'failed', or the poll itself rejects
ReplicatePredictionFailed ==
  /\ gen.pc = "replicate_poll"
  /\ gen.attempts < ReplicateMaxAttempts
  /\ \E e \in PlainErrors : Thrown(e)
  /\ UnchangedByGenerate

ReplicateDownloaded ==
  /\ gen.pc = "replicate_download"
  /\ Generated
  /\ UnchangedByGenerate

ReplicateDownloadFails ==
  /\ gen.pc = "replicate_download"
  /\ Thrown([status |-> 0, billing |-> FALSE])
  /\ UnchangedByGenerate

\* an endpoint of a model answers ok (at once or on the retry after 503)
HFEndpointOk ==
  /\ gen.pc = "huggingface"
  /\ Generated
  /\ UnchangedByGenerate

\* an endpoint fails: the next endpoint, the next model, or, after the last
\* one, `All Hugging Face models failed`
HFEndpointFails ==
  /\ gen.pc = "huggingface"
  /\ IF gen.endpoint < Len(HFEndpointFormats)
     THEN gen' = [gen EXCEPT !.endpoint = @ + 1]
     ELSE IF gen.model < Len(HFModels)
          THEN gen' = [gen EXCEPT !.endpoint = 1, !.model = @ + 1]
          ELSE Thrown([status |-> 0, billing |-> FALSE])
  /\ UnchangedByGenerate

\* openai.images.generate answers with an url
OpenAIGenerated ==
  /\ gen.pc = "openai"
  /\ gen' = [gen EXCEPT !.pc = "openai_download"]
  /\ UnchangedByGenerate

\* openai.images.generate rejects, or answers without an url
OpenAIRejects ==
  /\ gen.pc = "openai"
  /\ \E e \in Errors : Thrown(e)
  /\ UnchangedByGenerate

OpenAIDownloaded ==
  /\ gen.pc = "openai_download"
  /\ Generated
  /\ UnchangedByGenerate

OpenAIDownloadFails ==
  /\ gen.pc = "openai_download"
  /\ Thrown([status |-> 0, billing |-> FALSE])
  /\ UnchangedByGenerate

\* sharp(imageBuffer).png().toFile(filepath); res.json({success: true, ...})
ImageSaved ==
  /\ gen.pc = "save"
  /\ gen' = [gen EXCEPT !.pc = "sent", !.status = 200]
  /\ UnchangedByGenerate

SaveFails ==
  /\ gen.pc = "save"
  /\ gen' = [gen EXCEPT !.pc = "sent", !.status = 500]
  /\ UnchangedByGenerate

NextGenerate ==
  \/ PostGenerateImage
  \/ ReplicateCreated
  \/ ReplicateRejects
  \/ ReplicateStillRunning
  \/ ReplicateSucceeded
  \/ ReplicatePredictionFailed
  \/ ReplicateDownloaded
  \/ ReplicateDownloadFails
  \/ HFEndpointOk
  \/ HFEndpointFails
  \/ OpenAIGenerated
  \/ OpenAIRejects
  \/ OpenAIDownloaded
  \/ OpenAIDownloadFails
  \/ ImageSaved
  \/ SaveFails

SpecGenerate == InitGenerate /\ [][NextGenerate]_vars

(***************************************************************************)
(* applyAutoFix applied to its own output with the same violation list     *)
(***************************************************************************)
\* issue lists with a missing_disclaimer and no other global fix
TwiceLists ==
  {<<MkViolation("missing_disclaimer", "add_disclaimer_text", NullIndex, "medium")>>,
   <<MkViolation("font_small_1", "increase_font_size", 0, "medium"),
     MkViolation("missing_disclaimer", "add_disclaimer_text", NullIndex, "medium")>>,
   <<MkViolation("missing_disclaimer", "add_disclaimer_text", NullIndex, "medium"),
     MkViolation("prohibited_claim_1", "fix_claims", 0, "high")>>}

TwiceScenes == {<<Image>>, <<SampleHeadline>>, <<TermsApply>>, <<BestPrice>>, <<Image, HalfScale>>}

InitTwice ==
  \E objs \in TwiceScenes, r \in RuleSets :
    InitScene(objs, 1080, White, r, FALSE)

\* the first call
FixOnce ==
  /\ fx.pc = "idle"
  /\ \E list \in TwiceLists : EnterApplyAutoFix(list)
  /\ UNCHANGED <<canvasData, rules, openai, detected, log, after, parked, copy, gen, sidebar>>

\* the log holds the iterations of the first call only
FirstCallReturned == fx.pc = "done" /\ Len(log) = Len(fx.sorted)
SecondCallReturned == fx.pc = "done" /\ Len(log) = 2 * Len(fx.sorted)

\* the caller takes the returned scene as its scene and calls applyAutoFix
\* on it with the same list
FixAgain ==
  /\ FirstCallReturned
  /\ canvasData' = fx.fixedData
  /\ LET c == DeepClone(fx.fixedData)
     IN /\ heap' = c.heap
        /\ arrays' = c.arrays
        /\ fx' = [pc |-> "loop", fixedData |-> c.fixedData,
                  sorted |-> SortedViolations(issues), i |-> 1,
                  appliedFixes |-> {}, currentText |-> ""]
  /\ callerScene' = Objects(fx.fixedData)
  /\ UNCHANGED <<rules, openai, issues, detected, log, after, parked, copy, gen, sidebar>>

NextTwice ==
  \/ FixOnce
  \/ FixAgain
  \/ SkipViolation
  \/ ApplySyncFix
  \/ ApplyGlobalFix
  \/ BeginRewrite
  \/ SanitizeLocally
  \/ ReturnFixed

SpecTwice == InitTwice /\ [][NextTwice]_vars

(***************************************************************************)
(* The sidebar's automatic re-check (RightSidebar, useEffect): canvas      *)
(* events arm a 1000 ms timer; when it elapses the scene is sent to POST   *)
(* /api/check-compliance and the answer is stored as complianceIssues      *)
(***************************************************************************)
\* canvas events after the sidebar is mounted
MaxEdits == 3

\* the scenes the user's edits move between
SidebarScenes == {<<>>, <<SampleHeadline>>, <<GoodTag>>, <<GoodTag, FreeOnly>>}

\* app.post('/api/check-compliance'): checkCompliance(canvasData, getRetailRules())
\* on the snapshot canvas.toJSON() of the request
CheckedIssues(snapshot) ==
  checkComplianceOn([height |-> 1080, backgroundColor |-> White, objects |-> 1],
                    TRUE, snapshot, getRetailRules).violations

\* the effect ran: complianceIssues is the store's initial [], and the
\* initial debouncedCheck() armed the timer
InitSidebar ==
  \E objs \in SidebarScenes :
    /\ heap = <<>>
    /\ arrays = << <<>> >>
    /\ canvasData = [height |-> 1080, backgroundColor |-> White, objects |-> 1]
    /\ rules = getRetailRules
    /\ openai = FALSE
    /\ issues = <<>>
    /\ detected = NotRun
    /\ fx = IdleFix
    /\ log = <<>>
    /\ after = NotRun
    /\ callerScene = <<>>
    /\ parked = NoCall
    /\ copy = NoCopy
    /\ gen = NoGen
    /\ sidebar = [NoSidebar EXCEPT !.mounted = TRUE, !.canvas = objs, !.timer = TRUE]

UnchangedBySidebar ==
  UNCHANGED <<heap, arrays, canvasData, rules, openai, issues, detected, fx, log, after,
              callerScene, parked, copy, gen>>

\* canvas.on('object:added' | 'object:removed' | 'object:modified' | ...,
\* debouncedCheck): the scene changed; clearTimeout and setTimeout(..., 1000)
CanvasEvent ==
  /\ sidebar.mounted
  /\ sidebar.edits < MaxEdits
  /\ \E objs \in SidebarScenes \ {sidebar.canvas} :
       sidebar' = [sidebar EXCEPT !.canvas = objs, !.edits = @ + 1, !.timer = TRUE]
  /\ UnchangedBySidebar

\* the timer elapses: checkCompliance() takes canvas.toJSON() and sends it
DebounceElapses ==
  /\ sidebar.timer
  /\ sidebar' = [sidebar EXCEPT
                   !.timer = FALSE,
                   !.isChecking = TRUE,
                   !.started = @ + 1,
                   !.inflight = @ \cup {[id |-> sidebar.started + 1,
                                         snapshot |-> sidebar.canvas]}]
  /\ UnchangedBySidebar

\* a response arrives (the requests are independent fetches: any order):
\* setComplianceIssues(result.issues || []); finally setIsChecking(false)
ResponseArrives ==
  /\ \E request \in sidebar.inflight :
       sidebar' = [sidebar EXCEPT
                     !.inflight = @ \ {request},
                     !.complianceIssues = CheckedIssues(request.snapshot),
                     !.storedFrom = request.id,
                     !.isChecking = FALSE]
  /\ UnchangedBySidebar

\* the fetch rejects or the status is not ok: the error is logged, the
\* stored issues stay
RequestFails ==
  /\ \E request \in sidebar.inflight :
       sidebar' = [sidebar EXCEPT
                     !.inflight = @ \ {request},
                     !.isChecking = FALSE,
                     !.failed = TRUE]
  /\ UnchangedBySidebar

NextSidebar ==
  \/ CanvasEvent
  \/ DebounceElapses
  \/ ResponseArrives
  \/ RequestFails

SpecSidebar == InitSidebar /\ [][NextSidebar]_vars

(***************************************************************************)
(* Properties                                                              *)
(***************************************************************************)
\* the id of a violation without its element counter: "font_small_2" is of
\* kind "font_small_"
RECURSIVE KindOfId(_)
KindOfId(id) ==
  IF Len(id) > 0 /\ Ch(id, Len(id)) \in CharsOf(DigitChars)
  THEN KindOfId(SubSeq(id, 1, Len(id) - 1))
  ELSE id

Kinds(violations) == { KindOfId(violations[k].id) : k \in 1..Len(violations) }

Ids(violations) == { violations[k].id : k \in 1..Len(violations) }

FixedObjects == Objects(fx.fixedData)

\* the fix pass ran without a provider and its result was checked again
RecheckedNoProvider == after.done /\ ~openai

\* C1: one fix pass clears everything: the detector finds nothing in the
\* scene that applyAutoFix returns for the detector's own violations.
C1_FixClearsEverything ==
  RecheckedNoProvider => after.violations = <<>>

\* C2: the detector's list for the fixed scene is no longer than the list
\* for the original scene and holds no kind of violation that was not in it.
C2_NoNewViolations ==
  RecheckedNoProvider =>
    /\ Len(after.violations) <= Len(detected.violations)
    /\ Kinds(after.violations) \subseteq Kinds(detected.violations)

\* the indices (from 0) that some violation of the list names
TargetedIndices(violations) == { violations[k].objectIndex : k \in 1..Len(violations) }

\* C5: while and after applyAutoFix runs on the detector's list, an element
\* of the input scene that no violation names is unchanged at its index in
\* the copy, and the copy never gets shorter (new elements are appended).
C5_NoOpConservation ==
  (fx.pc # "idle" /\ HasArray(fx.fixedData)) =>
    /\ Len(FixedObjects) >= Len(callerScene)
    /\ \A i \in 1..Len(callerScene) :
         (i - 1) \notin TargetedIndices(issues) => FixedObjects[i] = callerScene[i]

\* C5 happens: the pass is over, it changed one element, appended another
\* and left an element that no violation names as it was.
C5_Witness ==
  /\ fx.pc = "done"
  /\ Len(FixedObjects) > Len(callerScene)
  /\ \E i \in 1..Len(callerScene) : FixedObjects[i] # callerScene[i]
  /\ \E i \in 1..Len(callerScene) :
       /\ IsText(callerScene[i])
       /\ (i - 1) \notin TargetedIndices(issues)
       /\ FixedObjects[i] = callerScene[i]

\* the running count of text elements at position i of objs (textIndex)
TextIndexAt(objs, i) ==
  Cardinality({ k \in 1..i : IsText(objs[k]) /\ ~IsOverlay(objs[k]) })

\* a text element above the unsafe-top line whose effective font size is
\* below the minimum (scenario A)
IsScenarioA(obj) ==
  /\ IsText(obj) /\ ~IsOverlay(obj)
  /\ obj.top < Ctx.topUnsafeHeight
  /\ obj.fontSize * Max(OrNum(obj.scaleX, 10), OrNum(obj.scaleY, 10)) < Ctx.minFontSize * 10

\* C9: for every text element with top < unsafeTop and effective font size
\* < minFontSize the detector reports text_unsafe_top_<n> and font_small_<n>,
\* and in the scene applyAutoFix returns for those violations the element
\* has top >= unsafeTop and fontSize >= minFontSize.
C9_ScenarioA ==
  \A i \in 1..Len(Objects(canvasData)) :
    IsScenarioA(Objects(canvasData)[i]) =>
      /\ detected.done =>
           /\ ("text_unsafe_top_" \o toString10(TextIndexAt(Objects(canvasData), i)))
                \in Ids(detected.violations)
           /\ ("font_small_" \o toString10(TextIndexAt(Objects(canvasData), i)))
                \in Ids(detected.violations)
      /\ fx.pc = "done" =>
           /\ FixedObjects[i].top >= Ctx.topUnsafeHeight
           /\ FixedObjects[i].fontSize >= Ctx.minFontSize

\* C9 happens: a scenario-A element that is not the first text element of
\* its scene went through a finished fix pass.
C9_Witness ==
  /\ fx.pc = "done"
  /\ \E i \in 1..Len(callerScene) :
       IsScenarioA(callerScene[i]) /\ TextIndexAt(callerScene, i) = 2

\* checkCompliance's list of allowed tag phrases, in lower case
AllowedTagsLower == CheckContext(canvasData, rules).requiredTagTexts

\* the scene has an objects list and no text element of it contains an
\* allowed tag phrase
NoTagInScene ==
  /\ HasArray(canvasData)
  /\ \A i \in 1..Len(Objects(canvasData)) :
       (IsText(Objects(canvasData)[i]) /\ ~IsOverlay(Objects(canvasData)[i])) =>
         ~SomeIncluded(toLowerCase(Objects(canvasData)[i].text), AllowedTagsLower)

\* the elements applyAutoFix appended to its copy
Appended == SubSeq(FixedObjects, Len(callerScene) + 1, Len(FixedObjects))

\* rules.allowedTagPhrases[0] is defined and is the text of an appended
\* text element
FirstPhraseAppended ==
  LET r == RulesOrFallback(rules)
  IN /\ "allowedTagPhrases" \notin r.missing
     /\ Len(r.allowedTagPhrases) > 0
     /\ \E k \in 1..Len(Appended) :
          IsText(Appended[k]) /\ Appended[k].text = r.allowedTagPhrases[1]

C10_WitnessRewritten ==
  /\ NoTagInScene /\ ~openai
  /\ fx.pc = "done"
  /\ Len(Appended) = 0
  /\ Len(callerScene) > 0

\* the caller's scene as applyAutoFix's caller sees it
CallerUntouched ==
  /\ Objects(canvasData) = callerScene
  /\ HasArray(canvasData) =>
       /\ fx.fixedData.objects # canvasData.objects
       /\ \A i \in 1..Len(arrays[canvasData.objects]) :
            \A j \in 1..Len(FixedArray) : arrays[canvasData.objects][i] # FixedArray[j]

\* C3: from the call of applyAutoFix on (while it runs, when it returns or
\* rejects, with or without a provider, for any violation list) the caller's
\* scene has the elements it had before the call, and the scene applyAutoFix
\* works on shares neither the objects array nor any element with it.
C3_CallerSceneUntouched == fx.pc # "idle" => CallerUntouched

\* C3 happens: a call with a provider has returned a scene in which an
\* element was changed and another was appended.
C3_Witness ==
  /\ fx.pc = "done" /\ openai
  /\ Len(FixedObjects) > Len(callerScene)
  /\ \E i \in 1..Len(callerScene) : FixedObjects[i] # callerScene[i]

\* the scene, its elements and the rules are what they were
SceneAndRulesUnchanged ==
  /\ heap' = heap /\ arrays' = arrays /\ canvasData' = canvasData /\ rules' = rules

EarlierSameKey(b) ==
  { a \in 1..(b - 1) : /\ log[a].v.fix = log[b].v.fix
                       /\ log[a].v.objectIndex = log[b].v.objectIndex }

\* the entries of the log with the key of entry b that applied their fix
AppliedWithKey(b) ==
  { a \in 1..Len(log) : /\ log[a].v.fix = log[b].v.fix
                        /\ log[a].v.objectIndex = log[b].v.objectIndex
                        /\ log[a].applied }

\* the violation names an element fix and a text element of the caller's scene
NamesTextElement(v) ==
  /\ v.fix \in SyncFixes \cup RewriteFixes
  /\ v.objectIndex # NullIndex
  /\ v.objectIndex + 1 <= Len(callerScene)
  /\ IsText(callerScene[v.objectIndex + 1])

C6_WitnessProviderAgain ==
  /\ Len(log) = 2
  /\ log[1].v = log[2].v
  /\ ~log[1].applied /\ log[2].applied

\* the rank the order of dispatch is meant to follow: high, medium, low,
\* anything else as medium
IntendedRank(v) ==
  IF v.severity = "high" THEN 0 ELSE IF v.severity = "low" THEN 2 ELSE 1

\* C7: applyAutoFix dispatches the violations in the order high, medium,
\* low (unknown severities as medium), violations of one severity in the
\* order of the input list.
C7_SeverityOrder ==
  fx.pc # "idle" =>
    fx.sorted = SelectSeq(issues, LAMBDA v : IntendedRank(v) = 0)
                \o SelectSeq(issues, LAMBDA v : IntendedRank(v) = 1)
                \o SelectSeq(issues, LAMBDA v : IntendedRank(v) = 2)

\* C8: fixTextContrast returns '#000000', '#FFFFFF' or a colour whose
\* contrast ratio against the background is at least 4.5.
C8_ContrastReached ==
  fx.pc = "contrast_fixed" =>
    \/ heap[1].fill.s \in {"#000000", "#FFFFFF"}
    \/ ~BelowTarget(getContrastRatio(heap[1].fill.s, canvasData.backgroundColor.s))

\* C8 happens: the loop found a colour that is neither the input nor pure
\* black or white.
C8_Witness ==
  /\ fx.pc = "contrast_fixed"
  /\ heap[1].fill.s \notin {"#000000", "#FFFFFF", callerScene[1].fill.s}

\* the other case of C8 happens: the loop ended below the target and the
\* result is pure white.
C8_WitnessSnapped ==
  /\ fx.pc = "contrast_fixed"
  /\ heap[1].fill.s = "#FFFFFF"
  /\ callerScene[1].fill.s = "#777777"
  /\ BelowTarget(getContrastRatio("#FFFFFF", canvasData.backgroundColor.s))

\* the near-miss tag of scenario C
IsNearMissTag(obj) == IsText(obj) /\ obj.text = "Only at Tesc"

\* C11: a text element with the text "Only at Tesc" is reported as
\* tag_text_incorrect_<n>, and a fix pass without a provider leaves the
\* default tag phrase as its text.
C11_NearMissTag ==
  \A i \in 1..Len(Objects(canvasData)) :
    IsNearMissTag(Objects(canvasData)[i]) =>
      /\ (detected.done /\ ~detected.threw) =>
           ("tag_text_incorrect_" \o toString10(TextIndexAt(Objects(canvasData), i)))
             \in Ids(detected.violations)
      /\ (fx.pc = "done" /\ ~openai) => FixedObjects[i].text = "Only at Tesco"

\* the five generic disclaimer phrases
GenericDisclaimers ==
  <<"terms and conditions", "terms & conditions", "t&cs", "see terms", "subject to terms">>

\* some text element of objs contains the configured disclaimer or a generic one
MentionsDisclaimer(objs) ==
  \E i \in 1..Len(objs) :
    /\ IsText(objs[i])
    /\ SomeIncluded(toLowerCase(objs[i].text),
                    <<toLowerCase(OrStr(RulesOrFallback(rules).requiredDisclaimer,
                                        "Selected stores. While stocks last."))>>
                    \o GenericDisclaimers)

\* some text element of objs has more than 20 characters after trimming
HasLongText(objs) ==
  \E i \in 1..Len(objs) : IsText(objs[i]) /\ Len(trim(objs[i].text)) > 20

\* missing_disclaimer is in the list exactly when it is due
DisclaimerVerdict(violations, objs) ==
  ("missing_disclaimer" \in Ids(violations)) <=> (~MentionsDisclaimer(objs) /\ HasLongText(objs))

\* C12: checkCompliance reports missing_disclaimer exactly when no text
\* element contains the configured disclaimer or one of the five generic
\* phrases and some text element has a trimmed length above 20 (for the
\* caller's scene and for the scene a fix pass returned).
C12_MissingDisclaimer ==
  /\ (detected.done /\ ~detected.threw /\ HasArray(canvasData)) =>
       DisclaimerVerdict(detected.violations, Objects(canvasData))
  /\ (after.done /\ ~after.threw /\ HasArray(fx.fixedData)) =>
       DisclaimerVerdict(after.violations, FixedObjects)

\* C12 happens: a scene with a long text and a generic disclaimer was
\* checked and no disclaimer is missing.
C12_Witness ==
  /\ detected.done
  /\ HasLongText(Objects(canvasData))
  /\ MentionsDisclaimer(Objects(canvasData))
  /\ "missing_disclaimer" \notin Ids(detected.violations)

\* the other case of C12 happens: the longest text has exactly 20 characters
\* after trimming and no disclaimer is missing.
C12_WitnessShort ==
  /\ detected.done
  /\ \E i \in 1..Len(Objects(canvasData)) : Len(trim(Objects(canvasData)[i].text)) = 20
  /\ ~HasLongText(Objects(canvasData))
  /\ ~MentionsDisclaimer(Objects(canvasData))
  /\ "missing_disclaimer" \notin Ids(detected.violations)

\* C13: when the scene has no objects array (objects is missing or is no
\* array) checkCompliance returns the empty list and raises nothing, under
\* every rule configuration.
C13_NoArrayNoViolations ==
  (detected.done /\ ~HasArray(canvasData)) =>
    /\ ~detected.threw
    /\ detected.violations = <<>>

\* C13 happens: a scene whose objects value is no array was checked without
\* rules.
C13_Witness ==
  /\ detected.done
  /\ canvasData.objects = NotAnArray
  /\ rules.isNull

\* C14: whatever form the fill of a text element and the background have,
\* neither checkCompliance nor the contrast fix of applyAutoFix raises.
C14_ColourNeverRaises == ~detected.threw /\ fx.pc # "failed"

\* the log lists the violations dispatched so far, in sorted order
LogFollowsSorted ==
  /\ Len(log) <= Len(fx.sorted)
  /\ \A j \in 1..Len(log) : log[j].v = fx.sorted[j]

\* C15: a provider call that raises during a rewrite fix does not abort the
\* pass: the waiting call always returns to the loop at the next violation,
\* the violations before and after the failing one are dispatched in order,
\* the call that returns has dispatched all of them, and a call that rejects
\* after a provider failure rejects in the dispatch of another, non-rewrite
\* violation.
C15_ProviderFailureContained ==
  /\ [][fx.pc = "await_openai" =>
          /\ fx'.pc = "loop"
          /\ fx'.i = fx.i + 1
          /\ fx'.sorted = fx.sorted
          /\ Len(log') = Len(log) + 1]_vars
  /\ [](\A k \in 1..Len(log) :
          log[k].raised =>
            /\ LogFollowsSorted
            /\ fx.i > k
            /\ fx.pc = "done" => Len(log) = Len(fx.sorted)
            /\ fx.pc = "failed" => Current.fix \notin RewriteFixes)

\* the provider failed on the first violation and the second was still applied
C15_Witness ==
  /\ fx.pc = "done"
  /\ Len(log) = 2
  /\ log[1].raised
  /\ log[2].applied /\ ~log[2].raised
  /\ log[2].v.fix \in SyncFixes \cup GlobalFixes

\* the provider failed on the last violation, after an applied one
C15_WitnessLast ==
  /\ fx.pc = "done"
  /\ Len(log) = 2
  /\ log[1].applied /\ ~log[1].raised
  /\ log[2].raised

\* the step ends an iteration in which the provider raised or answered
\* with an empty text
ProviderFailedStep ==
  /\ fx.pc = "await_openai"
  /\ Len(log') = Len(log) + 1
  /\ log'[Len(log')].raised \/ ~log'[Len(log')].applied

\* C16: when the configured provider raises or answers with an empty text
\* during a rewrite fix, the text of the target element becomes the local
\* sanitization of the text it had.
C16_FailureSanitizes ==
  [][ProviderFailedStep => heap'[TargetRef(Current)].text = Sanitize(fx.currentText)]_vars

\* the configured providers of /api/fix-copy in priority order
Configured ==
  (IF copy.hasGroq THEN <<"groq">> ELSE <<>>) \o (IF copy.hasOpenAI THEN <<"openai">> ELSE <<>>)

ProviderFailed(c) == c.outcome \in {"raised", "empty"}

\* C17: when /api/fix-copy has answered a request with a headline, the
\* providers it called are the configured ones in priority order (Groq, then
\* OpenAI), each one called only after the one before failed, and when the
\* last one called failed every configured provider has been called: local
\* sanitization comes only after all of them.
C17_ProviderChain ==
  (copy.pc = "sent" /\ copy.status = 200) =>
    /\ Len(copy.called) <= Len(Configured)
    /\ \A k \in 1..Len(copy.called) :
         /\ copy.called[k].provider = Configured[k]
         /\ k < Len(copy.called) => ProviderFailed(copy.called[k])
    /\ (Len(copy.called) > 0 /\ ProviderFailed(copy.called[Len(copy.called)])) =>
         Len(copy.called) = Len(Configured)
    /\ copy.warning => Len(copy.called) = Len(Configured)

\* the list field is present in the rule configuration and empty
IsEmptyList(field) ==
  /\ ~rules.isNull
  /\ field \notin rules.missing
  /\ rules[field] = <<>>

\* some violation of the list has an id of the kind
Reports(violations, kind) ==
  \E k \in 1..Len(violations) : startsWith(violations[k].id, kind)

\* C18: an empty phrase list is no requirement: with an empty
\* allowedTagPhrases the detector reports neither missing_tag_text nor
\* tag_text_incorrect, with an empty prohibitedClaims no prohibited_claim
\* and with an empty prohibitedWords no unsafe_word.
C18_EmptyListNoRequirement ==
  (detected.done /\ ~detected.threw) =>
    /\ IsEmptyList("allowedTagPhrases") =>
         /\ ~Reports(detected.violations, "missing_tag_text")
         /\ ~Reports(detected.violations, "tag_text_incorrect")
    /\ IsEmptyList("prohibitedClaims") => ~Reports(detected.violations, "prohibited_claim")
    /\ IsEmptyList("prohibitedWords") => ~Reports(detected.violations, "unsafe_word")

\* the part of C18 about the prohibited lists alone
C18_ProhibitedListsOnly ==
  (detected.done /\ ~detected.threw) =>
    /\ IsEmptyList("prohibitedClaims") => ~Reports(detected.violations, "prohibited_claim")
    /\ IsEmptyList("prohibitedWords") => ~Reports(detected.violations, "unsafe_word")

\* The loop of applyAutoFix as a function of the element list: what one call
\* returns when nothing else runs.  entry is the log entry of the iteration;
\* it tells what the provider did in it.
ValidTarget(objs, v) ==
  /\ v.objectIndex # NullIndex
  /\ v.objectIndex + 1 <= Len(objs)
  /\ IsText(objs[v.objectIndex + 1])

RewrittenAlone(text, entry) ==
  IF ~openai THEN Sanitize(text)
  ELSE IF entry.raised THEN "Only at Tesco"
       ELSE IF entry.answer # "" THEN entry.answer ELSE text

GlobalPresent(objs, v) ==
  IF v.fix = "add_disclaimer_text" THEN HasDisclaimer(objs)
  ELSE HasTagText(objs, FixContext(canvasData, rules))

ObjsAfterAlone(objs, v, applied, entry) ==
  IF FixKey(v) \in applied THEN objs
  ELSE IF v.fix \in SyncFixes /\ ValidTarget(objs, v)
  THEN [objs EXCEPT ![v.objectIndex + 1] =
          IF v.fix = "move_text_out_of_unsafe_zone"
          THEN MoveOutOfUnsafeZone(@, FixContext(canvasData, rules))
          ELSE IF v.fix = "increase_font_size"
               THEN IncreaseFontSize(@, FixContext(canvasData, rules))
               ELSE IncreaseTextContrast(@, canvasData)]
  ELSE IF v.fix \in GlobalFixes /\ ~GlobalPresent(objs, v)
  THEN Append(objs, IF v.fix = "add_disclaimer_text"
                    THEN DisclaimerText(FixContext(canvasData, rules))
                    ELSE TagText(FixContext(canvasData, rules)))
  ELSE IF v.fix \in RewriteFixes /\ ValidTarget(objs, v)
  THEN [objs EXCEPT ![v.objectIndex + 1].text = RewrittenAlone(@, entry)]
  ELSE objs

AppliedAfterAlone(objs, v, applied, entry) ==
  IF FixKey(v) \in applied THEN applied
  ELSE IF v.fix \in SyncFixes /\ ValidTarget(objs, v) THEN applied \cup {FixKey(v)}
  ELSE IF v.fix \in GlobalFixes /\ ~GlobalPresent(objs, v) THEN applied \cup {FixKey(v)}
  ELSE IF v.fix \in RewriteFixes /\ ValidTarget(objs, v)
          /\ (openai /\ ~entry.raised => entry.answer # "")
  THEN applied \cup {FixKey(v)}
  ELSE applied

RECURSIVE AloneFrom(_, _, _, _, _)
AloneFrom(objs, sorted, lg, i, applied) ==
  IF i > Len(sorted) \/ i > Len(lg) THEN objs
  ELSE AloneFrom(ObjsAfterAlone(objs, sorted[i], applied, lg[i]), sorted, lg, i + 1,
                 AppliedAfterAlone(objs, sorted[i], applied, lg[i]))

\* the scene a call with the given sorted list and provider outcomes returns
\* from the caller's scene when it runs alone
ReturnsAlone(call) == AloneFrom(callerScene, call.fx.sorted, call.log, 1, {})

Running == [fx |-> fx, log |-> log, issues |-> issues, interleaved |-> parked.interleaved]

ArrayOf(call) == arrays[call.fx.fixedData.objects]
SceneOf(call) ==
  IF call.fx.pc = "idle" THEN <<>>
  ELSE [k \in 1..Len(ArrayOf(call)) |-> heap[ArrayOf(call)[k]]]

RefsOf(call) ==
  IF call.fx.pc = "idle" THEN {} ELSE { ArrayOf(call)[k] : k \in 1..Len(ArrayOf(call)) }

\* the function agrees with the stepwise loop of a single call
AloneAgreesWithLoop == fx.pc = "done" => FixedObjects = ReturnsAlone(Running)

\* the two calls and the caller hold disjoint arrays and elements
Separate ==
  /\ RefsOf(Running) \cap RefsOf(parked) = {}
  /\ \A call \in {Running, parked} :
       call.fx.pc # "idle" =>
         /\ call.fx.fixedData.objects # canvasData.objects
         /\ RefsOf(call) \cap { arrays[canvasData.objects][k] :
                                  k \in 1..Len(arrays[canvasData.objects]) } = {}
  /\ (fx.pc # "idle" /\ parked.fx.pc # "idle") =>
       fx.fixedData.objects # parked.fx.fixedData.objects

\* C19: two applyAutoFix calls on the same scene and rules, interleaved at
\* their awaits, are independent: a call that has returned holds the scene it
\* returns when run alone (with the same provider outcomes), the caller's
\* scene stays what it was, the calls share no array and no element, and no
\* step of the running call changes the scene of the suspended one.
C19_ConcurrentCallsIndependent ==
  /\ [](\A call \in {Running, parked} :
          call.fx.pc = "done" => SceneOf(call) = ReturnsAlone(call))
  /\ [](fx.pc # "idle" => Objects(canvasData) = callerScene)
  /\ []Separate
  /\ [][parked' = parked => SceneOf(parked)' = SceneOf(parked)]_vars

\* both calls were suspended in their loops at the same time, both have
\* returned, and they return different scenes, both unlike the caller's
C19_Witness ==
  /\ fx.pc = "done" /\ parked.fx.pc = "done"
  /\ parked.interleaved
  /\ SceneOf(Running) # SceneOf(parked)
  /\ SceneOf(Running) # callerScene
  /\ SceneOf(parked) # callerScene

\* both strings are 6-digit hex colours
ValidPair(a, b) == hexToRgb(a).ok /\ hexToRgb(b).ok

SymmetricOn(a, b) == ValidPair(a, b) => getContrastRatio(a, b) = getContrastRatio(b, a)

\* C20: getContrastRatio(a, b) = getContrastRatio(b, a) for the valid
\* 6-digit hex colours a and b: the text colour and the background of the
\* scene, and the fixed text colour and the original one.
C20_ContrastSymmetric ==
  /\ SymmetricOn(heap[1].fill.s, canvasData.backgroundColor.s)
  /\ fx.pc = "contrast_fixed" => SymmetricOn(heap[1].fill.s, callerScene[1].fill.s)

\* after the contrast fix: a valid pair whose first colour is the darker one
\* and whose ratio is not 1
C20_Witness ==
  /\ fx.pc = "contrast_fixed"
  /\ ValidPair(heap[1].fill.s, canvasData.backgroundColor.s)
  /\ getContrastRatio(heap[1].fill.s, canvasData.backgroundColor.s)[1]
       > getContrastRatio(heap[1].fill.s, canvasData.backgroundColor.s)[2]
  /\ getContrastRatio(heap[1].fill.s, "#000000")[1]
       < getContrastRatio(canvasData.backgroundColor.s, "#000000")[1]

\* the image provider was called in the request
ImageProviderCalled(provider) ==
  \E k \in 1..Len(gen.called) : gen.called[k].provider = provider

\* C21: when Replicate and Hugging Face are both configured and the
\* Replicate call of a /api/generate-image request has failed, the answered
\* request has called Hugging Face.
C21_ReplicateFallsBack ==
  (/\ gen.pc = "sent"
   /\ gen.hasReplicate /\ gen.hasHuggingFace
   /\ Len(gen.called) > 0
   /\ gen.called[1] = Called("replicate", "failed")) =>
    ImageProviderCalled("huggingface")

\* C22: when applyAutoFix has been applied to its own output with the same
\* list holding a missing_disclaimer, the second call has appended nothing.
C22_DisclaimerOnce ==
  SecondCallReturned => Len(FixedObjects) = Len(callerScene)

\* the step applies a move_text_out_of_unsafe_zone fix
MoveApplied ==
  /\ InLoop
  /\ Current.fix = "move_text_out_of_unsafe_zone"
  /\ Len(log') = Len(log) + 1
  /\ log'[Len(log')].applied

\* the element lies in neither unsafe zone of the scene
InSafeZone(obj, ctx) ==
  /\ obj.top >= ctx.topUnsafeHeight
  /\ obj.top + Scaled(obj.height, OrNum(obj.scaleY, 10))
       <= ctx.canvasHeight - ctx.bottomUnsafeHeight

\* C23: the text element a move_text_out_of_unsafe_zone fix has just been
\* applied to lies in neither unsafe zone.
C23_MovedIntoSafeZone ==
  [][MoveApplied => InSafeZone(heap'[TargetRef(Current)], Ctx)]_vars

\* C24: after the contrast fix has written the fill back, the contrast ratio
\* of the fill against the background is at least 4.5, for every pair of
\* valid text and background colours.
C24_ContrastFixed ==
  (fx.pc = "contrast_fixed"
   /\ ValidPair(callerScene[1].fill.s, canvasData.backgroundColor.s)) =>
    ~BelowTarget(getContrastRatio(heap[1].fill.s, canvasData.backgroundColor.s))

ClaimFixes == {"fix_claims", "fix_unsafe_words"}

\* the list reports a prohibited claim or an unsafe word for the element
StillProhibited(violations, objectIndex) ==
  \E j \in 1..Len(violations) :
    violations[j].objectIndex = objectIndex /\ violations[j].fix \in ClaimFixes

\* C25: with no provider, the detector run on the returned scene reports no
\* prohibited_claim and no unsafe_word for an element to which a fix_claims
\* or fix_unsafe_words fix was applied.
C25_SanitizedTextClean ==
  (after.done /\ ~after.threw /\ ~openai) =>
    \A k \in 1..Len(log) :
      (log[k].applied /\ log[k].v.fix \in ClaimFixes) =>
        ~StillProhibited(after.violations, log[k].v.objectIndex)

\* the step is the local sanitization of a rewrite fix in a call that was
\* given rules
SanitizedLocally ==
  /\ fx.pc = "await_import"
  /\ ~openai
  /\ ~rules.isNull
  /\ Len(log') = Len(log) + 1

\* local sanitization with the prohibited lists of the rules of the call
SanitizeWith(text, r) ==
  OrStr(trim(CollapseSpaces(RemoveWords(text, Prohibited(r), 1))), "Only at Tesco")

\* C26: with no provider, the text a rewrite fix writes is the local
\* sanitization of the text with prohibitedClaims plus prohibitedWords of
\* the rules the fix call was given.
C26_SanitizesWithCallRules ==
  [][SanitizedLocally =>
       heap'[TargetRef(Current)].text = SanitizeWith(fx.currentText, Ctx.rules)]_vars

(***************************************************************************)
(* C27: the order of the detector's result                                 *)
(***************************************************************************)
\* the categories in the order checkCompliance pushes them
ScanOrder ==
  <<"text_unsafe_top_", "text_unsafe_bottom_", "font_small_", "contrast_low_",
    "tag_text_incorrect_", "prohibited_claim_", "unsafe_word_",
    "missing_disclaimer", "missing_tag_text">>

\* the position of a violation's category in ScanOrder, 0 for an unknown id
CategoryRank(v) ==
  IF \E k \in 1..Len(ScanOrder) : ScanOrder[k] = KindOfId(v.id)
  THEN CHOOSE k \in 1..Len(ScanOrder) : ScanOrder[k] = KindOfId(v.id)
  ELSE 0

IsGlobalViolation(v) == v.objectIndex = NullIndex

\* a comes strictly before b in scan order: an earlier element, or the same
\* element and an earlier category; the scene-global violations come last
BeforeInScan(a, b) ==
  IF IsGlobalViolation(a)
  THEN IsGlobalViolation(b) /\ CategoryRank(a) < CategoryRank(b)
  ELSE \/ IsGlobalViolation(b)
       \/ a.objectIndex < b.objectIndex
       \/ a.objectIndex = b.objectIndex /\ CategoryRank(a) < CategoryRank(b)

InScanOrder(violations) ==
  /\ \A p \in 1..Len(violations) :
       /\ CategoryRank(violations[p]) > 0
       /\ IsGlobalViolation(violations[p]) <=> CategoryRank(violations[p]) > 7
  /\ \A p, q \in 1..Len(violations) :
       p < q => BeforeInScan(violations[p], violations[q])

\* C27: the list checkCompliance returns is in scan order: the violations of
\* an element at a lower position come before those of a later element; those
\* of one element come in the order unsafe top, unsafe bottom, font size,
\* contrast, tag text, prohibited claim, prohibited word, at most one of each;
\* missing_disclaimer and then missing_tag_text come last
C27_ScanOrder ==
  detected.done /\ ~detected.threw => InScanOrder(detected.violations)

\* a result with two violations of one element, violations of two elements
\* and both scene-global violations
C27_Witness ==
  /\ detected.done /\ ~detected.threw
  /\ \E p, q \in 1..Len(detected.violations) :
       /\ p < q
       /\ ~IsGlobalViolation(detected.violations[p])
       /\ detected.violations[p].objectIndex = detected.violations[q].objectIndex
  /\ \E p, q \in 1..Len(detected.violations) :
       /\ ~IsGlobalViolation(detected.violations[p])
       /\ ~IsGlobalViolation(detected.violations[q])
       /\ detected.violations[p].objectIndex < detected.violations[q].objectIndex
  /\ Len(detected.violations) > 2
  /\ detected.violations[Len(detected.violations)].id = "missing_tag_text"
  /\ detected.violations[Len(detected.violations) - 1].id = "missing_disclaimer"

(***************************************************************************)
(* Termination of applyAutoFix: the calls of POST /api/auto-fix with the   *)
(* steps of a call taken to completion                                     *)
(***************************************************************************)
\* the value of `attempts` when the while loop of fixTextContrast ends
RECURSIVE AdjustAttempts(_, _, _, _)
AdjustAttempts(color, backgroundColor, tenths, attempts) ==
  The({ IF BelowTarget(getContrastRatio(adjustedColor, backgroundColor))
           /\ attempts < MaxAttempts
        THEN AdjustAttempts(adjustColorBrightness(adjustedColor, tenths), backgroundColor,
                            tenths, attempts + 1)
        ELSE attempts : adjustedColor \in {color} })

\* the brightness adjustments one fixTextContrast(textColor, backgroundColor)
\* makes
BrightnessIterations(textColor, backgroundColor) ==
  IF ~BelowTarget(getContrastRatio(textColor, backgroundColor)) THEN 0
  ELSE IF 2 * getColorLuminance(backgroundColor) > LumOne
       THEN AdjustAttempts(textColor, backgroundColor, -1, 0)
       ELSE AdjustAttempts(textColor, backgroundColor, 1, 0)

Grey == StrColor("#808080")
LightText == MkObj("textbox", "", "Light", 400, 30, 24, 10, 10, StrColor("#FFFFFF"))

\* the requests of InitIssues, and a scene on a mid-grey background whose
\* white text cannot reach the target by lightening
InitTerminates ==
  \/ InitIssues
  \/ \E provider \in BOOLEAN :
       InitWith(<<LightText, FreeOnly>>, 1, 1080, Grey, getRetailRules, provider)

\* the synchronous steps of a call run to completion, the dynamic import
\* resolves, and every provider call returns or fails; no fairness for the
\* arrival of a request
FairTerminates ==
  /\ WF_vars(SkipViolation)
  /\ WF_vars(DispatchThrows)
  /\ WF_vars(ApplySyncFix)
  /\ WF_vars(ApplyGlobalFix)
  /\ WF_vars(BeginRewrite)
  /\ WF_vars(SanitizeLocally)
  /\ WF_vars(CallProvider)
  /\ WF_vars(ProviderReturns \/ ProviderFails)
  /\ WF_vars(ReturnFixed)

SpecTerminates == InitTerminates /\ [][NextIssues]_vars /\ FairTerminates

\* the loop is at the violation after the ones it dispatched
OneDispatchEach ==
  /\ LogFollowsSorted
  /\ fx.pc \in {"loop", "done"} => Len(log) = fx.i - 1
  /\ fx.pc \in {"await_import", "await_openai", "failed"} => Len(log) = fx.i - 1

\* the step is a contrast fix
ContrastStep ==
  /\ InLoop
  /\ Current.fix = "increase_text_contrast"
  /\ Len(log') = Len(log) + 1
  /\ log'[Len(log')].applied

\* the brightness adjustments of the contrast fix of the current violation
CurrentIterations ==
  BrightnessIterations(TextColorHex(heap[TargetRef(Current)].fill).hex,
                       getBackgroundColor(fx.fixedData))

ApplyAutoFixEnded == fx.pc \in {"done", "failed"}

\* C28: applyAutoFix terminates for every finite violation list: the loop
\* dispatches each violation of the sorted list at most once (in order, one
\* per iteration), a contrast fix makes at most 20 brightness adjustments,
\* and, with every provider call returning or failing, a started call ends
\* (it returns the scene or rejects)
C28_Terminates ==
  /\ []OneDispatchEach
  /\ [][ContrastStep => CurrentIterations <= MaxAttempts]_vars
  /\ (fx.pc # "idle") ~> ApplyAutoFixEnded

\* a call that returned after a contrast fix that used all 20 adjustments
\* and a rewrite the provider answered
C28_Witness ==
  /\ fx.pc = "done"
  /\ Len(fx.sorted) > 1
  /\ Len(log) = Len(fx.sorted)
  /\ \E j \in 1..Len(log) :
       /\ log[j].v.fix = "increase_text_contrast"
       /\ log[j].applied
       /\ log[j].v.objectIndex + 1 \in 1..Len(callerScene)
       /\ BrightnessIterations(TextColorHex(callerScene[log[j].v.objectIndex + 1].fill).hex,
                               getBackgroundColor(canvasData)) = MaxAttempts
  /\ \E j \in 1..Len(log) : log[j].answer # ""

(***************************************************************************)
(* C29: violations that cannot be dispatched                               *)
(***************************************************************************)
\* the fix is missing or none of the switch's cases
NoSuchFix(v) == v.fix = "" \/ v.fix \notin SyncFixes \cup GlobalFixes \cup RewriteFixes

\* an element fix whose index is past the end of objs or names an element
\* that is no text element
NoTextTarget(v, objs) ==
  /\ v.fix \in SyncFixes \cup RewriteFixes
  /\ v.objectIndex # NullIndex
  /\ IF v.objectIndex + 1 <= Len(objs) THEN objs[v.objectIndex + 1].type \notin TextTypes
     ELSE TRUE

Undispatchable(v, objs) == NoSuchFix(v) \/ NoTextTarget(v, objs)

\* the step skips the current violation: nothing is written, no key is
\* recorded, the loop goes on with the next violation
SkippedStep ==
  /\ fx'.pc = "loop"
  /\ fx'.i = fx.i + 1
  /\ fx'.appliedFixes = fx.appliedFixes
  /\ fx'.fixedData = fx.fixedData
  /\ heap' = heap
  /\ arrays' = arrays
  /\ log' = Append(log, [v |-> Current, applied |-> FALSE, raised |-> FALSE, answer |-> ""])

\* every violation of the call is undispatchable on the caller's scene
OnlyUndispatchable ==
  /\ fx.pc # "idle"
  /\ HasArray(fx.fixedData)
  /\ \A k \in 1..Len(fx.sorted) : Undispatchable(fx.sorted[k], callerScene)

\* C29: on a scene with an objects array, a violation whose fix is missing or
\* unrecognised, or whose index is out of range or names a non-text element,
\* is skipped: the iteration raises no error, records no applied fix and
\* writes nothing; a call whose violations are all of this kind does not
\* fail and returns a scene equal to its input
C29_UndispatchableSkipped ==
  /\ [][(InLoop /\ HasArray(fx.fixedData) /\ Undispatchable(Current, FixedObjects))
          => SkippedStep]_vars
  /\ [](OnlyUndispatchable =>
          /\ fx.pc # "failed"
          /\ fx.appliedFixes = {}
          /\ FixedObjects = callerScene)

\* a call returned whose violations were a missing or unknown fix and an
\* element fix without a text target
C29_Witness ==
  /\ fx.pc = "done"
  /\ OnlyUndispatchable
  /\ Len(log) = Len(fx.sorted)
  /\ \E k \in 1..Len(fx.sorted) : NoSuchFix(fx.sorted[k])
  /\ \E k \in 1..Len(fx.sorted) :
       /\ NoTextTarget(fx.sorted[k], callerScene)
       /\ fx.sorted[k].objectIndex + 1 <= Len(callerScene)

\* the same with an index past the end of the scene
C29_WitnessOutOfRange ==
  /\ fx.pc = "done"
  /\ OnlyUndispatchable
  /\ Len(callerScene) > 0
  /\ \E k \in 1..Len(fx.sorted) :
       /\ NoTextTarget(fx.sorted[k], callerScene)
       /\ fx.sorted[k].objectIndex + 1 > Len(callerScene)

(***************************************************************************)
(* C30: the sidebar's automatic re-check                                   *)
(***************************************************************************)
\* no timer is armed and no request is in flight
SidebarQuiet == sidebar.mounted /\ ~sidebar.timer /\ sidebar.inflight = {}

\* the stored issues were overwritten by the response to an older check
OlderOverwrote == sidebar'.storedFrom < sidebar.storedFrom

\* C30: the response to an older check never overwrites the result of a
\* newer one, and once every request has completed (none of them failed)
\* and the canvas has stopped changing, the stored complianceIssues are the
\* violations of the latest canvas snapshot
C30_LatestSnapshotStored ==
  (SidebarQuiet /\ ~sidebar.failed) =>
    sidebar.complianceIssues = CheckedIssues(sidebar.canvas)

\* the first half of C30 as a property of the steps
C30_OlderNeverOverwrites == [][~OlderOverwrote]_vars
====
